---- MODULE Spec2Model ----
(***************************************************************************)
(* Model of the spreadsheet normalization engine of clean_for_snowflake.py *)
(* (header normalisation, region detection, the clean_single_sheet         *)
(* pipeline, type analysis, the normalize_spreadsheet orchestrator).       *)
(*                                                                         *)
(* Strings are sequences of characters; a character is a token (a one-     *)
(* letter TLA+ string for ASCII, a named token such as "eacute" for a      *)
(* non-ASCII character).  A cell is either NA (pandas NaN) or a string.    *)
(***************************************************************************)
EXTENDS Integers, Sequences, FiniteSets, TLC

VARIABLES pc,               \* position of the modelled call
          headers,          \* normalise_headers: the raw header row passed in
          final_headers,    \* normalise_headers: returned identifiers
          duplicate_count,  \* normalise_headers: returned duplicate count
          df_raw,           \* the raw grid of the sheet being processed
          regions,          \* the regions detect_table_regions returned for df_raw
          region_df_raw,    \* clean_single_sheet: the region passed in (df_raw)
          df,               \* clean_single_sheet: the region without empty rows/columns
          df_data,          \* clean_single_sheet: the table being cleaned
          normalized_headers, \* clean_single_sheet: the normalised header row
          metadata,         \* clean_single_sheet: the metadata dict
          type_df,          \* analyze_column_types: the table passed in
          type_analysis,    \* analyze_column_types: the returned dict
          workbook,         \* normalize_spreadsheet: the sheets of the input file
          sheet_idx,        \* normalize_spreadsheet: position in xl.sheet_names
          region_idx,       \* normalize_spreadsheet: number of the last region handled
          cleaned_sheets,   \* normalize_spreadsheet: the tables stored, in order
          sheet_metadata,   \* normalize_spreadsheet: the metadata stored per table
          meta_rows,        \* normalize_spreadsheet: the rows of the META sheet
          all_errors,       \* normalize_spreadsheet: the run's error list
          all_warnings,     \* normalize_spreadsheet: the run's warning list
          all_info,         \* normalize_spreadsheet: the run's info list
          status,           \* normalize_spreadsheet: the returned status
          faults,           \* failures raised so far in the run
          now,              \* front end: the clock that time.time() reads
          rate_limit_requests, \* front end: st.session_state.rate_limit_requests
          processing,       \* front end: st.session_state.processing
          rate_message,     \* front end: the error the last Normalize press showed
          run_log           \* front end: the times at which processing runs started

headerVars == <<headers, final_headers, duplicate_count>>
regionVars == <<df_raw, regions>>
cleanVars == <<region_df_raw, df, df_data, normalized_headers, metadata>>
typeVars == <<type_df, type_analysis>>
orchVars == <<workbook, sheet_idx, region_idx, cleaned_sheets, sheet_metadata, meta_rows,
              all_errors, all_warnings, all_info, status, faults>>
rateVars == <<now, rate_limit_requests, processing, rate_message, run_log>>
vars == <<pc, headerVars, regionVars, cleanVars, typeVars, orchVars, rateVars>>

\* variables of a component that is not running in a specification
IdleHeaders == headers = <<>> /\ final_headers = <<>> /\ duplicate_count = 0
IdleRegions == df_raw = <<>> /\ regions = <<>>
IdleClean == /\ region_df_raw = <<>> /\ df = <<>> /\ df_data = <<>>
             /\ normalized_headers = <<>> /\ metadata = <<>>
IdleTypes == type_df = <<>> /\ type_analysis = <<>>
IdleRate == /\ now = 0 /\ rate_limit_requests = <<>> /\ processing = FALSE
            /\ rate_message = "" /\ run_log = <<>>
IdleOrch == /\ workbook = <<>> /\ sheet_idx = 0 /\ region_idx = 0
            /\ cleaned_sheets = <<>> /\ sheet_metadata = <<>> /\ meta_rows = <<>>
            /\ all_errors = <<>> /\ all_warnings = <<>> /\ all_info = <<>>
            /\ status = <<>> /\ faults = {}

-----------------------------------------------------------------------------
(* Characters                                                              *)

LowerLetters == {"a","b","c","d","e","f","g","h","i","j","k","l","m",
                 "n","o","p","q","r","s","t","u","v","w","x","y","z"}
UpperLetters == {"A","B","C","D","E","F","G","H","I","J","K","L","M",
                 "N","O","P","Q","R","S","T","U","V","W","X","Y","Z"}
AsciiDigits == {"0","1","2","3","4","5","6","7","8","9"}
\* Representatives of the non-ASCII characters Python treats as letters/digits.
NonAsciiLower == {"eacute"}
NonAsciiUpper == {"EACUTE"}
NonAsciiDigits == {"arabic3"}
Whitespace == {" ", "TAB", "LF", "CR"}

LowerOf == [c \in UpperLetters \cup NonAsciiUpper |->
   CASE c = "A" -> "a" [] c = "B" -> "b" [] c = "C" -> "c" [] c = "D" -> "d"
     [] c = "E" -> "e" [] c = "F" -> "f" [] c = "G" -> "g" [] c = "H" -> "h"
     [] c = "I" -> "i" [] c = "J" -> "j" [] c = "K" -> "k" [] c = "L" -> "l"
     [] c = "M" -> "m" [] c = "N" -> "n" [] c = "O" -> "o" [] c = "P" -> "p"
     [] c = "Q" -> "q" [] c = "R" -> "r" [] c = "S" -> "s" [] c = "T" -> "t"
     [] c = "U" -> "u" [] c = "V" -> "v" [] c = "W" -> "w" [] c = "X" -> "x"
     [] c = "Y" -> "y" [] c = "Z" -> "z" [] c = "EACUTE" -> "eacute"]

\* str.lower() on one character
LowerChar(c) == IF c \in DOMAIN LowerOf THEN LowerOf[c] ELSE c

\* the regular expression class \w on str patterns (Unicode aware)
IsWordChar(c) == c \in LowerLetters \cup UpperLetters \cup AsciiDigits \cup {"_"}
                        \cup NonAsciiLower \cup NonAsciiUpper \cup NonAsciiDigits

\* str.isdigit() on one character
IsDigitChar(c) == c \in AsciiDigits \cup NonAsciiDigits

-----------------------------------------------------------------------------
(* String helpers                                                          *)

NA == <<"NaN">>          \* the missing value: not a string of characters

SetMin(S) == CHOOSE x \in S : \A y \in S : x <= y
SetMax(S) == CHOOSE x \in S : \A y \in S : x >= y

\* str(val) of a cell (NaN prints as nan)
AsStr(v) == IF v = NA THEN <<"n","a","n">> ELSE v

\* str.strip()
Strip(s) ==
    LET nz == {i \in 1..Len(s) : s[i] \notin Whitespace}
    IN IF nz = {} THEN <<>> ELSE SubSeq(s, SetMin(nz), SetMax(nz))

\* str.lower()
LowerStr(s) == [i \in 1..Len(s) |-> LowerChar(s[i])]

\* re.sub(r"\s+", "_", s): every maximal run of whitespace becomes one "_"
CollapseWhitespace(s) ==
    LET idx == SelectSeq([i \in 1..Len(s) |-> i],
                         LAMBDA i : s[i] \notin Whitespace \/ i = 1
                                    \/ s[i-1] \notin Whitespace)
    IN [k \in 1..Len(idx) |-> IF s[idx[k]] \in Whitespace THEN "_" ELSE s[idx[k]]]

\* re.sub(r"[^\w]", "", s)
RemoveNonWord(s) == SelectSeq(s, IsWordChar)

DigitChar(d) == CASE d = 0 -> "0" [] d = 1 -> "1" [] d = 2 -> "2" [] d = 3 -> "3"
                  [] d = 4 -> "4" [] d = 5 -> "5" [] d = 6 -> "6" [] d = 7 -> "7"
                  [] d = 8 -> "8" [] d = 9 -> "9"

\* str(n) for a natural number n
RECURSIVE IntToStr(_)
IntToStr(n) == IF n < 10 THEN <<DigitChar(n)>>
               ELSE Append(IntToStr(n \div 10), DigitChar(n % 10))

-----------------------------------------------------------------------------
(* Python number parsing: int(s) and float(s) succeed or raise ValueError  *)

IsDecimalDigit(c) == c \in AsciiDigits \cup NonAsciiDigits

\* end position of the digit part  digit (["_"] digit)*  that starts at i,
\* i - 1 when no digit stands at i
RECURSIVE DigitPartEnd(_, _)
DigitPartEnd(s, i) ==
    IF i > Len(s) \/ ~IsDecimalDigit(s[i]) THEN i - 1
    ELSE IF i + 1 <= Len(s) /\ IsDecimalDigit(s[i + 1]) THEN DigitPartEnd(s, i + 1)
    ELSE IF i + 2 <= Len(s) /\ s[i + 1] = "_" /\ IsDecimalDigit(s[i + 2])
         THEN DigitPartEnd(s, i + 2)
    ELSE i

SignLen(s) == IF Len(s) >= 1 /\ s[1] \in {"+", "-"} THEN 1 ELSE 0

\* int(s) parses: [sign] digitpart (s is already stripped)
IsPyInt(s) ==
    LET i == SignLen(s) + 1
    IN Len(s) >= i /\ DigitPartEnd(s, i) = Len(s)

\* an optional exponent starting at pos reaches the end of s
ExponentToEnd(s, pos) ==
    \/ pos > Len(s)
    \/ /\ s[pos] \in {"e", "E"}
       /\ LET q == IF pos + 1 <= Len(s) /\ s[pos + 1] \in {"+", "-"} THEN pos + 2 ELSE pos + 1
          IN q <= Len(s) /\ DigitPartEnd(s, q) = Len(s)

\* float(s) parses: [sign] (inf | infinity | nan | floatnumber)
IsPyFloat(s) ==
    LET i == SignLen(s) + 1
        rest == LowerStr(SubSeq(s, i, Len(s)))
        a == DigitPartEnd(s, i)
    IN \/ rest \in { <<"i","n","f">>, <<"n","a","n">>,
                     <<"i","n","f","i","n","i","t","y">> }
       \/ /\ a >= i                      \* digits first
          /\ \/ ExponentToEnd(s, a + 1)
             \/ /\ a + 1 <= Len(s) /\ s[a + 1] = "."
                /\ LET b == DigitPartEnd(s, a + 2)
                   IN ExponentToEnd(s, (IF b >= a + 2 THEN b ELSE a + 1) + 1)
       \/ /\ a < i                       \* ".5" form
          /\ i <= Len(s) /\ s[i] = "."
          /\ LET b == DigitPartEnd(s, i + 1)
             IN b >= i + 1 /\ ExponentToEnd(s, b + 1)

\* float(val_str.replace(',', '').replace('$', '').replace('%', '')) succeeds
IsNumericText(val_str) ==
    IsPyFloat(SelectSeq(val_str, LAMBDA c : c \notin {",", "$", "%"}))

-----------------------------------------------------------------------------
(* normalise_headers                                                       *)

SQL_RESERVED_WORDS == {
    <<"a","l","l">>,
    <<"a","l","t","e","r">>,
    <<"a","n","d">>,
    <<"a","n","y">>,
    <<"a","s">>,
    <<"a","s","c">>,
    <<"b","e","t","w","e","e","n">>,
    <<"b","y">>,
    <<"c","a","s","e">>,
    <<"c","a","s","t">>,
    <<"c","h","e","c","k">>,
    <<"c","o","l","u","m","n">>,
    <<"c","o","n","n","e","c","t">>,
    <<"c","o","n","s","t","r","a","i","n","t">>,
    <<"c","r","e","a","t","e">>,
    <<"c","r","o","s","s">>,
    <<"c","u","r","r","e","n","t">>,
    <<"c","u","r","r","e","n","t","_","d","a","t","e">>,
    <<"c","u","r","r","e","n","t","_","t","i","m","e">>,
    <<"c","u","r","r","e","n","t","_","t","i","m","e","s","t","a","m","p">>,
    <<"d","a","t","a","b","a","s","e">>,
    <<"d","e","l","e","t","e">>,
    <<"d","e","s","c">>,
    <<"d","i","s","t","i","n","c","t">>,
    <<"d","r","o","p">>,
    <<"e","l","s","e">>,
    <<"e","n","d">>,
    <<"e","x","i","s","t","s">>,
    <<"f","a","l","s","e">>,
    <<"f","o","l","l","o","w","i","n","g">>,
    <<"f","o","r">>,
    <<"f","r","o","m">>,
    <<"f","u","l","l">>,
    <<"g","r","a","n","t">>,
    <<"g","r","o","u","p">>,
    <<"h","a","v","i","n","g">>,
    <<"i","n">>,
    <<"i","n","c","r","e","m","e","n","t">>,
    <<"i","n","n","e","r">>,
    <<"i","n","s","e","r","t">>,
    <<"i","n","t","e","r","s","e","c","t">>,
    <<"i","n","t","o">>,
    <<"i","s">>,
    <<"j","o","i","n">>,
    <<"l","a","t","e","r","a","l">>,
    <<"l","e","f","t">>,
    <<"l","i","k","e">>,
    <<"l","o","c","a","l","t","i","m","e">>,
    <<"l","o","c","a","l","t","i","m","e","s","t","a","m","p">>,
    <<"m","i","n","u","s">>,
    <<"n","a","t","u","r","a","l">>,
    <<"n","o","t">>,
    <<"n","u","l","l">>,
    <<"o","f">>,
    <<"o","n">>,
    <<"o","r">>,
    <<"o","r","d","e","r">>,
    <<"o","r","g","a","n","i","z","a","t","i","o","n">>,
    <<"o","u","t","e","r">>,
    <<"o","v","e","r">>,
    <<"p","a","r","t","i","t","i","o","n">>,
    <<"p","r","e","c","e","d","i","n","g">>,
    <<"p","r","i","m","a","r","y">>,
    <<"r","a","n","g","e">>,
    <<"r","e","f","e","r","e","n","c","e","s">>,
    <<"r","e","v","o","k","e">>,
    <<"r","i","g","h","t">>,
    <<"r","l","i","k","e">>,
    <<"r","o","w">>,
    <<"r","o","w","s">>,
    <<"s","a","m","p","l","e">>,
    <<"s","e","l","e","c","t">>,
    <<"s","e","t">>,
    <<"s","o","m","e">>,
    <<"s","t","a","r","t">>,
    <<"t","a","b","l","e">>,
    <<"t","a","b","l","e","s","a","m","p","l","e">>,
    <<"t","h","e","n">>,
    <<"t","o">>,
    <<"t","r","i","g","g","e","r">>,
    <<"t","r","u","e">>,
    <<"u","n","i","o","n">>,
    <<"u","n","i","q","u","e">>,
    <<"u","p","d","a","t","e">>,
    <<"u","s","i","n","g">>,
    <<"v","a","l","u","e","s">>,
    <<"v","i","e","w">>,
    <<"w","h","e","n">>,
    <<"w","h","e","n","e","v","e","r">>,
    <<"w","h","e","r","e">>,
    <<"w","i","t","h">> }

MaxIdentLen == 255       \* Snowflake identifier length limit
TruncKeep == 252         \* characters kept in front of the "..." marker

\* Step 1: strip, lowercase, whitespace runs to "_", drop non-word characters
CleanHeader(h) == RemoveNonWord(CollapseWhitespace(LowerStr(Strip(AsStr(h)))))

IsUnnamed(val) == val = <<>> \/ val = <<"n","a","n">>

UnnamedColPrefix == <<"u","n","n","a","m","e","d","_","c","o","l","_">>

\* Step 2: empty headers become unnamed_col_<counter>
CleanList(hs) ==
    [i \in 1..Len(hs) |->
        LET val == CleanHeader(hs[i])
            unnamed_counter == 1 + Cardinality({j \in 1..(i-1) : IsUnnamed(CleanHeader(hs[j]))})
        IN IF IsUnnamed(val)
           THEN UnnamedColPrefix \o IntToStr(unnamed_counter)
           ELSE val]

\* if len(header) > 255: header[:252] + "..."
TruncateHeader(header) ==
    IF Len(header) > MaxIdentLen
    THEN SubSeq(header, 1, TruncKeep) \o <<".",".",".">>
    ELSE header

\* a step 3 that forgets the reserved words
SqlSafe_NoReserved(header0) ==
    TruncateHeader(IF Len(header0) > 0 /\ IsDigitChar(header0[1])
                   THEN <<"c","o","l","_">> \o header0 ELSE header0)

\* Step 3: digit-leading names, reserved words, length
SqlSafe(header0) ==
    LET h1 == IF Len(header0) > 0 /\ IsDigitChar(header0[1])
              THEN <<"c","o","l","_">> \o header0 ELSE header0
        h2 == IF h1 \in SQL_RESERVED_WORDS THEN h1 \o <<"_","c","o","l">> ELSE h1
    IN TruncateHeader(h2)

\* Step 4: the uniqueness loop over sql_safe_list with its `seen` dictionary
RECURSIVE UniqueLoop(_, _, _, _, _)
UniqueLoop(list, i, seen, final, dups) ==
    IF i > Len(list)
    THEN [final_headers |-> final, duplicate_count |-> dups]
    ELSE LET header == list[i] IN
         IF header \in DOMAIN seen
         THEN LET n == seen[header] + 1
                  new_header == TruncateHeader(header \o <<"_">> \o IntToStr(n))
              IN UniqueLoop(list, i + 1, [seen EXCEPT ![header] = n],
                            Append(final, new_header), dups + 1)
         ELSE UniqueLoop(list, i + 1, seen @@ (header :> 1),
                         Append(final, header), dups)

normalise_headers(hs) ==
    LET clean_list == CleanList(hs)
        sql_safe_list == [i \in 1..Len(clean_list) |-> SqlSafe(clean_list[i])]
    IN UniqueLoop(sql_safe_list, 1, [x \in {} |-> 0], <<>>, 0)

-----------------------------------------------------------------------------
(* DataFrames of clean_single_sheet                                        *)
(* A DataFrame is a record: index (row labels), columns (column names) and *)
(* rows (one sequence of cells per row).  A boolean cell is kept as the    *)
(* text str() gives it ("False"/"True"); every reader applies str() first. *)

DF(index, columns, rows) == [index |-> index, columns |-> columns, rows |-> rows]
DFLen(frame) == Len(frame.rows)
DFWidth(frame) == IF Len(frame.rows) = 0 THEN Len(frame.columns) ELSE Len(frame.rows[1])
\* frame.empty: no rows or no columns
DFEmpty(frame) == DFLen(frame) = 0 \/ DFWidth(frame) = 0
RangeIndex(n) == [i \in 1..n |-> i - 1]
\* positions (1-based) of the rows kept by a predicate on the position
KeepRows(frame, Keep(_)) ==
    LET pos == SelectSeq([i \in 1..DFLen(frame) |-> i], Keep)
    IN DF([k \in 1..Len(pos) |-> frame.index[pos[k]]], frame.columns,
          [k \in 1..Len(pos) |-> frame.rows[pos[k]]])
\* reset_index(drop=True)
ResetIndex(frame) == DF(RangeIndex(DFLen(frame)), frame.columns, frame.rows)

\* dropna(how="all"): drop the rows whose cells are all NaN
DropNaRows(frame) == KeepRows(frame, LAMBDA i : \E c \in 1..Len(frame.rows[i]) : frame.rows[i][c] # NA)

\* dropna(axis=1, how="all"): drop the columns whose cells are all NaN
DropNaCols(frame) ==
    LET w == DFWidth(frame)
        keep == SelectSeq([c \in 1..w |-> c],
                          LAMBDA c : \E i \in 1..DFLen(frame) : frame.rows[i][c] # NA)
    IN DF(frame.index,
          IF Len(frame.columns) = w THEN [k \in 1..Len(keep) |-> frame.columns[keep[k]]] ELSE frame.columns,
          [i \in 1..DFLen(frame) |-> [k \in 1..Len(keep) |-> frame.rows[i][keep[k]]]])

\* position of the row labelled idx (labels are unique), 0 when absent
PosOfLabel(frame, idx) ==
    IF \E i \in 1..DFLen(frame) : frame.index[i] = idx
    THEN CHOOSE i \in 1..DFLen(frame) : frame.index[i] = idx
    ELSE 0

-----------------------------------------------------------------------------
(* detect_header_depth and flatten_multirow_headers                        *)

\* frame.replace("", pd.NA).notna() of one cell
TmpNotNa(v) == v # NA /\ v # <<>>

RowNonEmptyCount(row) == Cardinality({c \in 1..Len(row) : TmpNotNa(row[c])})

\* max(2, int(df_tmp.shape[1] * 0.3))
MinNonEmpty(frame) ==
    LET t == (3 * DFWidth(frame)) \div 10 IN IF t > 2 THEN t ELSE 2

MaxHeaderDepth == 3

\* the loop `for check_depth in range(2, max_depth + 1)`
RECURSIVE HeaderDepthLoop(_, _, _, _, _)
HeaderDepthLoop(frame, start_idx, check_depth, max_depth, depth) ==
    IF check_depth > max_depth THEN depth
    ELSE
    LET check_idx == start_idx + check_depth - 1
        p == PosOfLabel(frame, check_idx)
    IN IF p = 0 THEN depth
       ELSE
       LET row == frame.rows[p]
           non_empty_count == RowNonEmptyCount(row)
           numeric_count == Cardinality({c \in 1..Len(row) :
                               TmpNotNa(row[c]) /\ IsNumericText(Strip(AsStr(row[c])))})
       IN IF non_empty_count >= MinNonEmpty(frame) /\ 10 * non_empty_count >= 3 * Len(row)
          THEN IF (IF non_empty_count > 0 THEN 2 * numeric_count < non_empty_count ELSE FALSE)
               THEN HeaderDepthLoop(frame, start_idx, check_depth + 1, max_depth, check_depth)
               ELSE depth
          ELSE depth

\* returns <<start_idx, depth>>; start_idx is a row label
detect_header_depth(frame) ==
    LET dense == {i \in 1..DFLen(frame) : RowNonEmptyCount(frame.rows[i]) >= MinNonEmpty(frame)}
    IN IF dense = {} THEN <<frame.index[1], 1>>
       ELSE LET start_idx == frame.index[SetMin(dense)]
                avail == DFLen(frame) - start_idx
                max_depth == IF MaxHeaderDepth < avail THEN MaxHeaderDepth ELSE avail
            IN <<start_idx, HeaderDepthLoop(frame, start_idx, 2, max_depth, 1)>>

\* '_'.join(parts)
RECURSIVE JoinWith(_, _)
JoinWith(parts, sep) ==
    IF Len(parts) = 0 THEN <<>>
    ELSE IF Len(parts) = 1 THEN parts[1]
    ELSE parts[1] \o sep \o JoinWith(Tail(parts), sep)

\* flatten_multirow_headers keeping consecutive equal parts
flatten_multirow_headers_NoCollapse(frame, start_idx, depth) ==
    IF depth = 1 THEN frame.rows[PosOfLabel(frame, start_idx)]
    ELSE
    LET labels == SelectSeq([i \in 1..depth |-> start_idx + i - 1],
                            LAMBDA l : PosOfLabel(frame, l) # 0)
        header_rows == [k \in 1..Len(labels) |-> frame.rows[PosOfLabel(frame, labels[k])]]
    IN IF Len(header_rows) = 0 THEN frame.rows[PosOfLabel(frame, start_idx)]
       ELSE [col \in 1..Len(header_rows[1]) |->
               LET all == [k \in 1..Len(header_rows) |->
                              IF header_rows[k][col] = NA THEN <<>>
                              ELSE Strip(AsStr(header_rows[k][col]))]
                   ne == SelectSeq([k \in 1..Len(all) |-> k], LAMBDA k : all[k] # <<>>)
                   parts == [k \in 1..Len(ne) |-> all[ne[k]]]
                   keepi == SelectSeq([k \in 1..Len(parts) |-> k],
                                      LAMBDA k : TRUE)
                   cleaned_parts == [k \in 1..Len(keepi) |-> parts[keepi[k]]]
               IN IF Len(parts) > 0 THEN JoinWith(cleaned_parts, <<"_">>)
                  ELSE UnnamedColPrefix \o IntToStr(col)]

\* header_row of a band of `depth` rows starting at label start_idx
flatten_multirow_headers(frame, start_idx, depth) ==
    IF depth = 1 THEN frame.rows[PosOfLabel(frame, start_idx)]
    ELSE
    LET labels == SelectSeq([i \in 1..depth |-> start_idx + i - 1],
                            LAMBDA l : PosOfLabel(frame, l) # 0)
        header_rows == [k \in 1..Len(labels) |-> frame.rows[PosOfLabel(frame, labels[k])]]
    IN IF Len(header_rows) = 0 THEN frame.rows[PosOfLabel(frame, start_idx)]
       ELSE [col \in 1..Len(header_rows[1]) |->
               LET all == [k \in 1..Len(header_rows) |->
                              IF header_rows[k][col] = NA THEN <<>>
                              ELSE Strip(AsStr(header_rows[k][col]))]
                   ne == SelectSeq([k \in 1..Len(all) |-> k], LAMBDA k : all[k] # <<>>)
                   parts == [k \in 1..Len(ne) |-> all[ne[k]]]
                   keepi == SelectSeq([k \in 1..Len(parts) |-> k],
                                      LAMBDA k : k = 1 \/ parts[k] # parts[k - 1])
                   cleaned_parts == [k \in 1..Len(keepi) |-> parts[keepi[k]]]
               IN IF Len(parts) > 0 THEN JoinWith(cleaned_parts, <<"_">>)
                  ELSE UnnamedColPrefix \o IntToStr(col)]

-----------------------------------------------------------------------------
(* detect_repeated_headers                                                 *)

SeqToSet(q) == {q[i] : i \in 1..Len(q)}

\* the row's values after astype(str): NaN becomes the text nan
RowValuesAsStr(row) == [c \in 1..Len(row) |-> AsStr(row[c])]

\* row_set: stripped, lowercased values that are not empty after the strip
RowSet(row) ==
    {LowerStr(Strip(v)) : v \in {w \in SeqToSet(RowValuesAsStr(row)) : Strip(w) # <<>>}}

HeaderSet(hdrs) ==
    {LowerStr(Strip(h)) : h \in {g \in SeqToSet(hdrs) : Strip(g) # <<>>}}

IsRepeatedHeaderRow(row, hdrs) ==
    LET row_set == RowSet(row)
        header_set == HeaderSet(hdrs)
        row_values == RowValuesAsStr(row)
        overlap == Cardinality(row_set \cap header_set)
        position_matches == Cardinality({i \in 1..Len(hdrs) :
              i <= Len(row_values)
              /\ LowerStr(Strip(row_values[i])) = LowerStr(Strip(hdrs[i]))})
    IN /\ Cardinality(row_set) > 0
       /\ \/ 10 * overlap >= 7 * Cardinality(row_set)
          \/ /\ 10 * position_matches >= 7 * Len(hdrs)
             /\ 2 * Cardinality(row_set) >= Cardinality(header_set)

\* returns [df |-> cleaned table, count |-> removed rows]
detect_repeated_headers(data, hdrs) ==
    IF DFEmpty(data) \/ Len(hdrs) = 0 \/ HeaderSet(hdrs) = {}
    THEN [df |-> data, count |-> 0]
    ELSE LET rows_to_drop == {i \in 1..DFLen(data) :
                                 IsRepeatedHeaderRow(data.rows[i], hdrs)}
         IN IF rows_to_drop # {}
            THEN [df |-> ResetIndex(KeepRows(data, LAMBDA i : i \notin rows_to_drop)),
                  count |-> Cardinality(rows_to_drop)]
            ELSE [df |-> data, count |-> 0]

-----------------------------------------------------------------------------
(* detect_total_rows                                                       *)

\* `sub in s` for strings
Contains(s, sub) ==
    \/ Len(sub) = 0
    \/ \E i \in 0..(Len(s) - Len(sub)) :
          s[i + 1] = sub[1] /\ SubSeq(s, i + 1, i + Len(sub)) = sub

\* the Chinese keywords, one token per character
total_keywords ==
    { <<"t","o","t","a","l">>, <<"s","u","b","t","o","t","a","l">>,
      <<"g","r","a","n","d"," ","t","o","t","a","l">>,
      <<"g","r","a","n","d","_","t","o","t","a","l">>,
      <<"s","u","m">>, <<"s","u","m","m","a","r","y">>,
      <<"t","o","t","a","l","s">>, <<"s","u","b","t","o","t","a","l","s">>,
      <<"U5408","U8BA1">>, <<"U603B","U8BA1">>, <<"U5C0F","U8BA1">> }

specific_keywords ==
    { <<"g","r","a","n","d"," ","t","o","t","a","l">>,
      <<"s","u","b","t","o","t","a","l">>,
      <<"g","r","a","n","d","_","t","o","t","a","l">> }

IsTotalRowCol == <<"_","_","i","s","_","t","o","t","a","l","_","r","o","w">>
PossibleDuplicateCol ==
    <<"_","_","p","o","s","s","i","b","l","e","_","d","u","p","l","i","c","a","t","e">>
FalseCell == <<"F","a","l","s","e">>
TrueCell == <<"T","r","u","e">>
BoolCell(b) == IF b THEN TrueCell ELSE FalseCell

\* the cells of a row that pass safe_notna and are not empty after the strip
NonEmptyPositions(row) ==
    SelectSeq([c \in 1..Len(row) |-> c],
              LAMBDA c : row[c] # NA /\ Strip(AsStr(row[c])) # <<>>)

\* ' '.join(row_parts)
RowStr(row) ==
    LET ne == NonEmptyPositions(row)
    IN JoinWith([k \in 1..Len(ne) |-> LowerStr(Strip(AsStr(row[ne[k]])))], <<" ">>)

\* is_total of a row as the loop reads it (the row already carries the
\* __is_total_row cell, still False)
RowIsTotal(row) ==
    LET row_str == RowStr(row)
    IN \E kw \in total_keywords : Contains(row_str, kw)

\* high_confidence of a flagged row; idx is its label, n the table length
RowHighConfidence(row, idx, n) ==
    LET row_str == RowStr(row)
        has_specific_keyword == \E kw \in specific_keywords : Contains(row_str, kw)
        ne == NonEmptyPositions(row)
        non_empty_count == Len(ne)
        numeric_count == Cardinality({k \in 1..Len(ne) : IsNumericText(Strip(AsStr(row[ne[k]])))})
        mostly_numeric == IF non_empty_count > 0
                          THEN 10 * numeric_count >= 7 * non_empty_count ELSE FALSE
        is_near_end == 10 * idx >= 9 * n
    IN has_specific_keyword /\ (mostly_numeric \/ is_near_end)

\* the row that `data.loc[idx]` yields inside the loop: the data cells
\* followed by the cell of the new __is_total_row column
RowWithFlag(row) == Append(row, FalseCell)

\* a detect_total_rows that counts the flagged rows but never sets their tag
detect_total_rows_NoTag(data) ==
    IF DFEmpty(data) THEN [df |-> data, flagged |-> 0, dropped |-> 0]
    ELSE
    LET n == DFLen(data)
        flagged_indices == {i \in 1..n : RowIsTotal(RowWithFlag(data.rows[i]))}
        dropped_indices == {i \in flagged_indices :
              RowHighConfidence(RowWithFlag(data.rows[i]), data.index[i], n)}
        tagged == DF(data.index, Append(data.columns, IsTotalRowCol),
                     [i \in 1..n |-> Append(data.rows[i], FalseCell)])
    IN [df |-> IF dropped_indices # {}
               THEN ResetIndex(KeepRows(tagged, LAMBDA i : i \notin dropped_indices))
               ELSE tagged,
        flagged |-> Cardinality(flagged_indices),
        dropped |-> Cardinality(dropped_indices)]

\* returns [frame, flagged, dropped]
detect_total_rows(data) ==
    IF DFEmpty(data) THEN [df |-> data, flagged |-> 0, dropped |-> 0]
    ELSE
    LET n == DFLen(data)
        flagged_indices == {i \in 1..n : RowIsTotal(RowWithFlag(data.rows[i]))}
        dropped_indices == {i \in flagged_indices :
              RowHighConfidence(RowWithFlag(data.rows[i]), data.index[i], n)}
        tagged == DF(data.index, Append(data.columns, IsTotalRowCol),
                     [i \in 1..n |-> Append(data.rows[i], BoolCell(i \in flagged_indices))])
    IN [df |-> IF dropped_indices # {}
               THEN ResetIndex(KeepRows(tagged, LAMBDA i : i \notin dropped_indices))
               ELSE tagged,
        flagged |-> Cardinality(flagged_indices),
        dropped |-> Cardinality(dropped_indices)]

-----------------------------------------------------------------------------
(* detect_context_columns and fill_down_context                            *)

category_keywords ==
    { <<"c","a","t","e","g","o","r","y">>, <<"g","r","o","u","p">>,
      <<"s","e","c","t","i","o","n">>, <<"r","e","g","i","o","n">>,
      <<"d","e","p","a","r","t","m","e","n","t">>, <<"d","i","v","i","s","i","o","n">>,
      <<"t","y","p","e">>, <<"c","l","a","s","s">>, <<"l","e","v","e","l">>,
      <<"h","i","e","r","a","r","c","h","y">> }

InternalCols == {PossibleDuplicateCol, IsTotalRowCol}

\* frame[col]: with a repeated column name pandas hands back a frame, of which
\* the code takes the first column
FirstColPos(frame, col) == SetMin({c \in 1..Len(frame.columns) : frame.columns[c] = col})

\* frame[col].astype(str) as a sequence of strings
ColumnAsStr(frame, col) == [i \in 1..DFLen(frame) |-> AsStr(frame.rows[i][FirstColPos(frame, col)])]

BlankTexts == { <<>>, <<"n","a","n">>, <<"N","o","n","e">>, <<"n","u","l","l">> }
MaskBlankTexts == { <<>>, <<"n","a","n">>, <<"N","o","n","e">> }

IsContextColumn(frame, col) ==
    LET series == ColumnAsStr(frame, col)
        n_rows == DFLen(frame)
        blank_count == Cardinality({i \in 1..n_rows : Strip(series[i]) \in BlankTexts})
        non_blank == SelectSeq(series, LAMBDA v : Strip(v) \notin MaskBlankTexts)
        non_blank_len == Len(non_blank)
        unique_count == Cardinality(SeqToSet(non_blank))
        has_category_keyword == \E kw \in category_keywords : Contains(LowerStr(col), kw)
        \* cardinality_ratio = unique_count / non_blank_len, 1.0 without values
        CardBelow(num, den) == non_blank_len > 0 /\ den * unique_count < num * non_blank_len
    IN \/ (10 * blank_count >= 3 * n_rows /\ CardBelow(2, 10))
       \/ (CardBelow(1, 10) /\ non_blank_len > 0)
       \/ (has_category_keyword /\ (10 * blank_count >= 2 * n_rows \/ CardBelow(3, 10)))

detect_context_columns(frame, hdrs) ==
    IF DFEmpty(frame) \/ Len(hdrs) = 0 THEN <<>>
    ELSE SelectSeq(frame.columns, LAMBDA col : col \notin InternalCols /\ IsContextColumn(frame, col))

IsBlankText(val_str) == val_str = <<>> \/ LowerStr(val_str) \in
                           { <<"n","a","n">>, <<"n","o","n","e">>, <<"n","u","l","l">> }

\* the scan of one column: series is the column as strings, the result the
\* filled column. last_value at row i is the stripped text of the nearest
\* row above that is not blank, None when there is none.
FillLoop(series) ==
    [i \in 1..Len(series) |->
        LET val_str == Strip(series[i])
            above == {j \in 1..(i - 1) : ~IsBlankText(Strip(series[j]))}
        IN IF IsBlankText(val_str)
           THEN IF above # {} THEN Strip(series[SetMax(above)]) ELSE series[i]
           ELSE val_str]

\* df_filled[col] = filled_series (every column carrying that name is set)
SetColumn(frame, col, values) ==
    DF(frame.index, frame.columns,
       [i \in 1..DFLen(frame) |->
           [c \in 1..Len(frame.rows[i]) |->
               IF frame.columns[c] = col THEN values[i] ELSE frame.rows[i][c]]])

RECURSIVE FillColumns(_, _, _)
FillColumns(df_filled, context_columns, k) ==
    IF k > Len(context_columns) THEN df_filled
    ELSE LET col == context_columns[k]
         IN IF col \notin SeqToSet(df_filled.columns)
            THEN FillColumns(df_filled, context_columns, k + 1)
            ELSE FillColumns(
                   SetColumn(df_filled, col, FillLoop(ColumnAsStr(df_filled, col))),
                   context_columns, k + 1)

fill_down_context(frame, context_columns) ==
    IF DFEmpty(frame) \/ Len(context_columns) = 0 THEN frame
    ELSE FillColumns(frame, context_columns, 1)

\* data["__possible_duplicate"] = data.duplicated(keep=False)
\* duplicated(keep='first'): only the later copies of a row are tagged
TagDuplicateRows_KeepFirst(data) ==
    DF(data.index, Append(data.columns, PossibleDuplicateCol),
       [i \in 1..DFLen(data) |->
           Append(data.rows[i],
                  BoolCell(\E j \in 1..(i - 1) : data.rows[j] = data.rows[i]))])

\* df_data["__possible_duplicate"] = df_data.duplicated(keep=False)
TagDuplicateRows(data) ==
    DF(data.index, Append(data.columns, PossibleDuplicateCol),
       [i \in 1..DFLen(data) |->
           Append(data.rows[i],
                  BoolCell(\E j \in 1..DFLen(data) : j # i /\ data.rows[j] = data.rows[i]))])

-----------------------------------------------------------------------------
(* Specification of normalise_headers over bounded header rows             *)

MaxHeaderCols == 3

\* a header of n copies of "a" followed by the string tail
LongHeader(n, tail) == [i \in 1..n |-> "a"] \o tail

RawHeaders ==
    { NA, <<>>, <<"a">>, <<"A"," ">>, <<"a","_","2">>, <<"a"," ","2">>,
      <<"2","a">>, <<"s","e","l","e","c","t">>, <<"eacute">>, <<"a","-">>, <<"arabic3">>,
      LongHeader(256, <<>>), LongHeader(255, <<"b">>) }

HeaderRows == UNION { [1..n -> RawHeaders] : n \in 0..MaxHeaderCols }

InitHeaders ==
    /\ pc = "normalise"
    /\ headers \in HeaderRows
    /\ final_headers = <<>>
    /\ duplicate_count = 0
    /\ IdleRegions /\ IdleClean /\ IdleTypes /\ IdleOrch
    /\ IdleRate

NormaliseHeaders ==
    /\ pc = "normalise"
    /\ LET r == normalise_headers(headers)
       IN /\ final_headers' = r.final_headers
          /\ duplicate_count' = r.duplicate_count
    /\ pc' = "done"
    /\ UNCHANGED <<headers, regionVars, cleanVars, typeVars, orchVars, rateVars>>

NextHeaders == NormaliseHeaders

SpecHeaders == InitHeaders /\ [][NextHeaders]_vars

-----------------------------------------------------------------------------
(* Claims about normalise_headers                                          *)

\* C1: for every header row passed to normalise_headers the result has exactly
\* one identifier per input position and no two returned identifiers are equal.
C1_UniqueIdentifiers ==
    pc = "done" =>
        /\ Len(final_headers) = Len(headers)
        /\ \A i, j \in 1..Len(final_headers) :
              i # j => final_headers[i] # final_headers[j]

\* the regular expression ^[a-z_][a-z0-9_]*$
MatchesIdentifier(s) ==
    /\ Len(s) >= 1
    /\ s[1] \in LowerLetters \cup {"_"}
    /\ \A i \in 2..Len(s) : s[i] \in LowerLetters \cup AsciiDigits \cup {"_"}

\* C10: every identifier returned by normalise_headers matches
\* ^[a-z_][a-z0-9_]*$ and is at most 255 characters long.
C10_SqlSafeIdentifiers ==
    pc = "done" =>
        \A i \in 1..Len(final_headers) :
            /\ MatchesIdentifier(final_headers[i])
            /\ Len(final_headers[i]) <= MaxIdentLen

\* C11: no identifier returned by normalise_headers is a reserved word and
\* none starts with a digit, also after truncation and duplicate suffixing.
C11_NoReservedNoDigitLead ==
    pc = "done" =>
        \A i \in 1..Len(final_headers) :
            /\ final_headers[i] \notin SQL_RESERVED_WORDS
            /\ Len(final_headers[i]) > 0
            /\ ~IsDigitChar(final_headers[i][1])

\* a row with a digit-leading header and the same reserved word twice, so that
\* the prefix, the _col suffix and the duplicate suffix were all applied
C11_Witness ==
    /\ pc = "done"
    /\ \E i \in 1..Len(headers) : headers[i] = <<"2","a">>
    /\ \E i, j \in 1..Len(headers) :
          /\ i < j
          /\ headers[i] = <<"s","e","l","e","c","t">>
          /\ headers[j] = <<"s","e","l","e","c","t">>
          /\ final_headers[i] = <<"s","e","l","e","c","t","_","c","o","l">>
          /\ final_headers[j] = <<"s","e","l","e","c","t","_","c","o","l","_","2">>
    /\ duplicate_count > 0

-----------------------------------------------------------------------------
(* detect_table_regions                                                    *)
(* A grid is a sequence of rows, a row a sequence of cells; row and column *)
(* positions are 0-based as in the source (RangeIndex of read_excel).      *)

NRows(frame) == Len(frame)
NCols(frame) == IF Len(frame) = 0 THEN 0 ELSE Len(frame[1])
CellAt(frame, r, c) == frame[r + 1][c + 1]

\* frame.astype(str).replace(['nan', 'None', 'null', ''], pd.NA): the cells that
\* count as blank when regions are detected (exact matches, no strip)
RegionBlankStrings == { <<"n","a","n">>, <<"N","o","n","e">>, <<"n","u","l","l">>, <<>> }
RegionBlank(v) == AsStr(v) \in RegionBlankStrings

\* the loop that turns the sorted separator positions into (start, end) runs
RECURSIVE SplitRanges(_, _, _, _, _)
SplitRanges(seps, k, start, n, acc) ==
    IF k > Len(seps)
    THEN IF start < n THEN Append(acc, <<start, n - 1>>) ELSE acc
    ELSE SplitRanges(seps, k + 1, seps[k] + 1, n,
                     IF start < seps[k] THEN Append(acc, <<start, seps[k] - 1>>) ELSE acc)

\* non_empty_count of the region slice
RegionNonEmptyCount(frame, rr, cr) ==
    Cardinality({ rc \in (rr[1]..rr[2]) \X (cr[1]..cr[2]) : ~RegionBlank(CellAt(frame, rc[1], rc[2])) })

MinRegionRows == 2
MinRegionCols == 2

\* a size check that forgets the density threshold
RegionAccepted_NoDensity(frame, rr, cr) ==
    /\ (rr[2] - rr[1] + 1) >= MinRegionRows
    /\ (cr[2] - cr[1] + 1) >= MinRegionCols

\* (rows >= 2 and cols >= 2 and density >= 0.3); density = non_empty / size
RegionAccepted(frame, rr, cr) ==
    LET total_count == (rr[2] - rr[1] + 1) * (cr[2] - cr[1] + 1)
        non_empty_count == RegionNonEmptyCount(frame, rr, cr)
    IN /\ (rr[2] - rr[1] + 1) >= MinRegionRows
       /\ (cr[2] - cr[1] + 1) >= MinRegionCols
       /\ total_count > 0
       /\ 10 * non_empty_count >= 3 * total_count

\* f"R{a}C{b}:R{c}C{d}"
BoundsString(r1, c1, r2, c2) ==
    <<"R">> \o IntToStr(r1) \o <<"C">> \o IntToStr(c1) \o <<":">> \o
    <<"R">> \o IntToStr(r2) \o <<"C">> \o IntToStr(c2)

MakeRegion(rr, cr) ==
    [min_row |-> rr[1], max_row |-> rr[2], min_col |-> cr[1], max_col |-> cr[2],
     bounds |-> BoundsString(rr[1] + 1, cr[1] + 1, rr[2] + 1, cr[2] + 1)]

WholeGridRegion(frame) ==
    [min_row |-> 0, max_row |-> NRows(frame) - 1, min_col |-> 0, max_col |-> NCols(frame) - 1,
     bounds |-> BoundsString(1, 1, NRows(frame), NCols(frame))]

detect_table_regions(frame) ==
    IF NRows(frame) = 0 \/ NCols(frame) = 0 THEN <<>>
    ELSE
    LET separator_rows == SelectSeq([i \in 1..NRows(frame) |-> i - 1],
              LAMBDA r : \A c \in 0..(NCols(frame) - 1) : RegionBlank(CellAt(frame, r, c)))
        separator_cols == SelectSeq([i \in 1..NCols(frame) |-> i - 1],
              LAMBDA c : \A r \in 0..(NRows(frame) - 1) : RegionBlank(CellAt(frame, r, c)))
        row_ranges == SplitRanges(separator_rows, 1, 0, NRows(frame), <<>>)
        col_ranges == SplitRanges(separator_cols, 1, 0, NCols(frame), <<>>)
        nc == Len(col_ranges)
        \* candidates in the order of the nested loops (rows outer, columns inner)
        candidates == [p \in 1..(Len(row_ranges) * nc) |->
                          <<row_ranges[((p - 1) \div nc) + 1], col_ranges[((p - 1) % nc) + 1]>>]
        kept == SelectSeq(candidates, LAMBDA rc : RegionAccepted(frame, rc[1], rc[2]))
        found == [k \in 1..Len(kept) |-> MakeRegion(kept[k][1], kept[k][2])]
    IN IF separator_rows = <<>> /\ separator_cols = <<>> THEN <<WholeGridRegion(frame)>>
       ELSE IF found = <<>> THEN <<WholeGridRegion(frame)>>
       ELSE found

-----------------------------------------------------------------------------
(* Specification of detect_table_regions over bounded grids                *)

MaxGridRows == 2
MaxGridCols == 4

X == <<"x">>
SmallGrids ==
    UNION { [1..r -> [1..c -> {NA, X}]] : r \in 0..MaxGridRows, c \in 1..MaxGridCols }

\* 2x2 blocks of different densities, also with blank-like and whitespace text
Blocks ==
    { <<<<X, X>>, <<X, X>>>>,
      <<<<X, NA>>, <<NA, X>>>>,
      <<<<X, NA>>, <<X, NA>>>>,
      <<<<X, NA>>, <<NA, NA>>>>,
      <<<<NA, NA>>, <<NA, NA>>>>,
      <<<<X, <<"n","u","l","l">>>>, <<<<"N","o","n","e">>, <<>>>>>>,
      <<<<X, <<" ">>>>, <<<<"N","U","L","L">>, NA>>>> }

\* a 5x5 sheet of four blocks around a blank middle row and a blank middle column
QuadrantGrid(a, b, c, d) ==
    << a[1] \o <<NA>> \o b[1],
       a[2] \o <<NA>> \o b[2],
       <<NA, NA, NA, NA, NA>>,
       c[1] \o <<NA>> \o d[1],
       c[2] \o <<NA>> \o d[2] >>

QuadrantGrids == { QuadrantGrid(a, b, c, d) : a \in Blocks, b \in Blocks, c \in Blocks, d \in Blocks }

Grids == SmallGrids \cup QuadrantGrids

InitRegions ==
    /\ pc = "detect_regions"
    /\ df_raw \in Grids
    /\ regions = <<>>
    /\ IdleHeaders /\ IdleClean /\ IdleTypes /\ IdleOrch
    /\ IdleRate

DetectRegions ==
    /\ pc = "detect_regions"
    /\ regions' = detect_table_regions(df_raw)
    /\ pc' = "done"
    /\ UNCHANGED <<df_raw, headerVars, cleanVars, typeVars, orchVars, rateVars>>

NextRegions == DetectRegions

SpecRegions == InitRegions /\ [][NextRegions]_vars

RegionCells(g) == (g.min_row..g.max_row) \X (g.min_col..g.max_col)

\* C4: the regions returned for one grid are pairwise non-overlapping, and unless
\* the result is the single whole-grid fallback region every region has at least
\* 2 rows, at least 2 columns and a non-blank density of at least 0.30.
C4_RegionsDisjointAndDense ==
    pc = "done" =>
        /\ \A i, j \in 1..Len(regions) :
              i # j => RegionCells(regions[i]) \cap RegionCells(regions[j]) = {}
        /\ regions # <<WholeGridRegion(df_raw)>> =>
              \A i \in 1..Len(regions) :
                 LET g == regions[i]
                     cells == RegionCells(g)
                     nonblank == { rc \in cells : AsStr(CellAt(df_raw, rc[1], rc[2])) \notin RegionBlankStrings }
                 IN /\ g.max_row - g.min_row + 1 >= 2
                    /\ g.max_col - g.min_col + 1 >= 2
                    /\ 10 * Cardinality(nonblank) >= 3 * Cardinality(cells)

\* a run that returned two or more regions, none of them the whole grid
C4_Witness ==
    /\ pc = "done"
    /\ Len(regions) >= 2
    /\ regions # <<WholeGridRegion(df_raw)>>

\* row r of the grid is fully blank; column c of the grid is fully blank
BlankRow(grid, r) == \A c \in 0..(NCols(grid) - 1) : RegionBlank(CellAt(grid, r, c))
BlankCol(grid, c) == \A r \in 0..(NRows(grid) - 1) : RegionBlank(CellAt(grid, r, c))

\* the maximal runs a..b of positions below n that are not blank
MaximalRuns(n, IsBlank(_)) ==
    { <<a, b>> \in (0..(n - 1)) \X (0..(n - 1)) :
        /\ a <= b
        /\ \A i \in a..b : ~IsBlank(i)
        /\ (a = 0 \/ IsBlank(a - 1))
        /\ (b = n - 1 \/ IsBlank(b + 1)) }

\* C15: detect_table_regions returns at least one region for any grid, and
\* exactly the whole grid as its one region when the grid has no fully blank
\* row and no fully blank column or when every candidate region is rejected.
C15_AlwaysARegion ==
    pc = "done" =>
        LET row_runs == MaximalRuns(NRows(df_raw), LAMBDA r : BlankRow(df_raw, r))
            col_runs == MaximalRuns(NCols(df_raw), LAMBDA c : BlankCol(df_raw, c))
            no_separator == /\ \A r \in 0..(NRows(df_raw) - 1) : ~BlankRow(df_raw, r)
                            /\ \A c \in 0..(NCols(df_raw) - 1) : ~BlankCol(df_raw, c)
            all_rejected == \A rr \in row_runs : \A cr \in col_runs :
                                ~RegionAccepted(df_raw, rr, cr)
        IN /\ Len(regions) >= 1
           /\ (no_separator \/ all_rejected) => regions = <<WholeGridRegion(df_raw)>>

-----------------------------------------------------------------------------
(* clean_single_sheet, one action per stage of the function                *)
(* A message of the info/warnings/errors lists is a tuple: its fixed text  *)
(* followed by the numbers formatted into it.                              *)

\* a metadata record whose rows_in is left at its initial 0
InitMetadata_NoRowsIn(rows_in) ==
    [duplicate_column_names_fixed |-> 0, repeated_header_rows_dropped |-> 0,
     totals_rows_dropped |-> 0, totals_rows_flagged |-> 0,
     header_row_index |-> 0, header_depth_used |-> 1,
     context_columns_filled |-> <<>>, rows_in |-> 0, rows_out |-> 0,
     info |-> <<>>, warnings |-> <<>>, errors |-> <<>>]

InitMetadata(rows_in) ==
    [duplicate_column_names_fixed |-> 0, repeated_header_rows_dropped |-> 0,
     totals_rows_dropped |-> 0, totals_rows_flagged |-> 0,
     header_row_index |-> 0, header_depth_used |-> 1,
     context_columns_filled |-> <<>>, rows_in |-> rows_in, rows_out |-> 0,
     info |-> <<>>, warnings |-> <<>>, errors |-> <<>>]

AppendIf(cond, q, msg) == IF cond THEN Append(q, msg) ELSE q

\* lines 861-878: drop the empty rows and columns, start the metadata
CleanStartStep(raw) ==
    LET d == DropNaCols(DropNaRows(raw))
    IN [df |-> d, metadata |-> InitMetadata(DFLen(d))]

\* lines 884-906: header band, flattening, data rows, normalised column names
DetectHeaderStep(d, md) ==
    LET hd == detect_header_depth(d)
        header_idx == hd[1]
        header_depth == hd[2]
        flattened_header_row == flatten_multirow_headers(d, header_idx, header_depth)
        nh == normalise_headers(flattened_header_row)
        body == ResetIndex(KeepRows(d, LAMBDA i : d.index[i] >= header_idx + header_depth))
    IN [normalized_headers |-> nh.final_headers,
        df_data |-> DF(body.index, nh.final_headers, body.rows),
        metadata |-> [md EXCEPT
            !.header_row_index = header_idx,
            !.header_depth_used = header_depth,
            !.warnings = AppendIf(header_depth > 1, @,
                             <<"Multi-row header detected. Verify header structure.", header_depth>>),
            !.duplicate_column_names_fixed = nh.duplicate_count,
            !.info = AppendIf(nh.duplicate_count > 0, @,
                             <<"Fixed duplicate column name(s).", nh.duplicate_count>>)]]

\* lines 908-914
RepeatedHeadersStep(data, hdrs, md) ==
    LET r == detect_repeated_headers(data, hdrs)
    IN [df_data |-> r.df,
        metadata |-> [md EXCEPT
            !.repeated_header_rows_dropped = r.count,
            !.info = AppendIf(r.count > 0, @, <<"Removed repeated header row(s).", r.count>>)]]

\* lines 916-929: dropna, then the total rows
TotalRowsStep(data, md) ==
    LET d == DropNaRows(data)
    IN IF ~DFEmpty(d)
       THEN LET t == detect_total_rows(d)
            IN [df_data |-> t.df,
                metadata |-> [md EXCEPT
                    !.totals_rows_flagged = t.flagged,
                    !.totals_rows_dropped = t.dropped,
                    !.info = AppendIf(t.flagged > 0 /\ t.dropped > 0, @,
                                 <<"Removed total row(s).", t.dropped>>),
                    !.warnings = AppendIf(t.flagged > 0 /\ t.flagged > t.dropped, @,
                                 <<"potential total row(s) flagged for review.",
                                   t.flagged - t.dropped>>)]]
       ELSE [df_data |-> d, metadata |-> md]

\* lines 931-938
ContextFillStep(data, hdrs, md) ==
    LET context_columns == IF ~DFEmpty(data)
                           THEN detect_context_columns(data, hdrs)
                           ELSE <<>>
    IN IF Len(context_columns) > 0
       THEN [df_data |-> fill_down_context(data, context_columns),
             metadata |-> [md EXCEPT
                 !.context_columns_filled = context_columns,
                 !.info = Append(@, <<"Applied fill-down to context column(s)",
                                      Len(context_columns)>>)]]
       ELSE [df_data |-> data, metadata |-> md]

\* lines 940-954: duplicate tags, rows_out, the row-reduction warning
TagDuplicatesStep(data, md) ==
    LET d == TagDuplicateRows(data)
        rows_in == md.rows_in
        rows_out == DFLen(d)
    IN [df_data |-> d,
        metadata |-> [md EXCEPT
            !.rows_out = rows_out,
            !.warnings = AppendIf(rows_in > 0 /\ 2 * (rows_in - rows_out) > rows_in, @,
                             <<"Significant row reduction", rows_in, rows_out>>)]]

\* lines 940-954, after the context fill
CleanFromFill(s4) == TagDuplicatesStep(s4.df_data, s4.metadata)

\* lines 931-954, after the total rows
CleanFromTotals(hdrs, s3) == CleanFromFill(ContextFillStep(s3.df_data, hdrs, s3.metadata))

\* lines 916-954, after the repeated header rows
CleanFromRepeated(hdrs, s2) == CleanFromTotals(hdrs, TotalRowsStep(s2.df_data, s2.metadata))

\* lines 908-954, after the header
CleanFromHeader(s1) ==
    CleanFromRepeated(s1.normalized_headers,
        RepeatedHeadersStep(s1.df_data, s1.normalized_headers, s1.metadata))

\* lines 880-954, after the empty rows and columns are dropped
CleanFromStart(s0) ==
    IF DFEmpty(s0.df) THEN [df_data |-> s0.df, metadata |-> s0.metadata]
    ELSE CleanFromHeader(DetectHeaderStep(s0.df, s0.metadata))

\* (table, metadata) as a record
CleanResult(s) == [df |-> s.df_data, metadata |-> s.metadata]

\* the whole of clean_single_sheet: (table, metadata)
clean_single_sheet(raw) == CleanResult(CleanFromStart(CleanStartStep(raw)))

-----------------------------------------------------------------------------
(* clean_single_sheet, one stage per step                                  *)

CleanFrame == <<headerVars, regionVars, typeVars, orchVars, rateVars>>

\* lines 861-882: return early when nothing is left
CleanStart ==
    /\ pc = "clean_start"
    /\ LET s == CleanStartStep(region_df_raw)
       IN /\ df' = s.df
          /\ metadata' = s.metadata
          /\ IF DFEmpty(s.df)
             THEN df_data' = s.df /\ pc' = "done"
             ELSE df_data' = df_data /\ pc' = "detect_header"
    /\ UNCHANGED <<region_df_raw, normalized_headers, CleanFrame>>

DetectHeader ==
    /\ pc = "detect_header"
    /\ LET s == DetectHeaderStep(df, metadata)
       IN /\ normalized_headers' = s.normalized_headers
          /\ df_data' = s.df_data
          /\ metadata' = s.metadata
    /\ pc' = "repeated_headers"
    /\ UNCHANGED <<region_df_raw, df, CleanFrame>>

RepeatedHeaders ==
    /\ pc = "repeated_headers"
    /\ LET s == RepeatedHeadersStep(df_data, normalized_headers, metadata)
       IN df_data' = s.df_data /\ metadata' = s.metadata
    /\ pc' = "total_rows"
    /\ UNCHANGED <<region_df_raw, df, normalized_headers, CleanFrame>>

TotalRows ==
    /\ pc = "total_rows"
    /\ LET s == TotalRowsStep(df_data, metadata)
       IN df_data' = s.df_data /\ metadata' = s.metadata
    /\ pc' = "context_fill"
    /\ UNCHANGED <<region_df_raw, df, normalized_headers, CleanFrame>>

ContextFill ==
    /\ pc = "context_fill"
    /\ LET s == ContextFillStep(df_data, normalized_headers, metadata)
       IN df_data' = s.df_data /\ metadata' = s.metadata
    /\ pc' = "tag_duplicates"
    /\ UNCHANGED <<region_df_raw, df, normalized_headers, CleanFrame>>

TagDuplicates ==
    /\ pc = "tag_duplicates"
    /\ LET s == TagDuplicatesStep(df_data, metadata)
       IN df_data' = s.df_data /\ metadata' = s.metadata
    /\ pc' = "done"
    /\ UNCHANGED <<region_df_raw, df, normalized_headers, CleanFrame>>

-----------------------------------------------------------------------------
(* Specification of clean_single_sheet over bounded regions                *)

MaxSmallRows == 2        \* rows of the exhaustively enumerated two-column regions
MaxTemplateRows == 3     \* rows of the four-column regions built from row templates
MaxTallRows == 10        \* body rows of the six-column regions

\* row label of the region's first row in its sheet (the region keeps the
\* labels of the sheet it was cut from)
RegionOffsets == {0, 1}

RegionAt(off, rows) == DF([i \in 1..Len(rows) |-> off + i - 1], <<>>, rows)

SmallCells == { NA, <<" ">>, <<"a">>, <<"1">> }
SmallRegions ==
    { RegionAt(off, rows) :
        off \in RegionOffsets,
        rows \in UNION { [1..n -> {<<a, b>> : a \in SmallCells, b \in SmallCells}]
                         : n \in 1..MaxSmallRows } }

TemplateRows ==
    { << <<"T","y","p","e">>, <<"N","a","m","e">>, <<"Q","t","y">>, <<"A","m","t">> >>,
      << NA, <<"F","u","l","l">>, <<"U","n","i","t","s">>, <<"A","m","t">> >>,
      << <<"A">>, <<"x">>, <<"1">>, <<"2">> >>,
      << NA, <<"y">>, <<"3">>, <<"4">> >>,
      << <<"t","y","p","e">>, <<"n","a","m","e">>, <<"q","t","y">>, NA >>,
      << <<"T","o","t","a","l">>, <<" ">>, <<"4">>, <<"6">> >>,
      << <<"S","u","b","t","o","t","a","l">>, <<"1","0">>, <<"2","0">>, <<"3","0">> >> }
TemplateRegions ==
    { RegionAt(off, rows) :
        off \in RegionOffsets,
        rows \in UNION { [1..n -> TemplateRows] : n \in 1..MaxTemplateRows } }

TallHeader ==
    << <<"T","y","p","e">>, <<"N","a","m","e">>, <<"Q","t","y">>, <<"A","m","t">>,
       <<"N","1">>, <<"N","2">> >>
TallFiller == << <<"A">>, <<"x">>, <<"1">>, <<"2">>, <<"3">>, <<"4">> >>
TallSpecials ==
    { << <<"G","r","a","n","d"," ","T","o","t","a","l">>, <<"1","0","0">>, <<"2","0","0">>,
         <<"3","0","0">>, <<"4","0","0">>, <<"5","0","0">> >>,
      << <<"S","u","b","t","o","t","a","l">>, <<"s">>, <<"1">>, <<"2">>, <<"3">>, <<"4">> >>,
      << <<"S","u","b","t","o","t","a","l">>, <<"1">>, <<"2">>, <<"3">>, NA, NA >>,
      << <<"t","y","p","e">>, <<"N","A","M","E">>, <<"Q","t","y">>, <<"A","m","t">>,
         <<"n","1">>, NA >> }
\* a header row, then n body rows: filler rows, one special row at p and,
\* when q differs from p, a second special row at q (the last row)
TallRegions ==
    { RegionAt(0, <<TallHeader>> \o
                  [i \in 1..n |-> IF i = p THEN s1 ELSE IF i = q THEN s2 ELSE TallFiller]) :
        n \in {MaxTallRows - 1, MaxTallRows}, p \in 1..(MaxTallRows - 1),
        q \in {1, MaxTallRows - 1, MaxTallRows}, s1 \in TallSpecials, s2 \in TallSpecials }

CleanInputs == SmallRegions \cup TemplateRegions \cup TallRegions

InitClean ==
    /\ pc = "clean_start"
    /\ region_df_raw \in CleanInputs
    /\ df = <<>>
    /\ df_data = <<>>
    /\ normalized_headers = <<>>
    /\ metadata = <<>>
    /\ IdleHeaders /\ IdleRegions /\ IdleTypes /\ IdleOrch
    /\ IdleRate

NextClean ==
    \/ CleanStart
    \/ DetectHeader
    \/ RepeatedHeaders
    \/ TotalRows
    \/ ContextFill
    \/ TagDuplicates

SpecClean == InitClean /\ [][NextClean]_vars

-----------------------------------------------------------------------------
(* Claims about clean_single_sheet and its stages                          *)

\* number of rows of the table a stage starts from
RowsBefore ==
    CASE pc = "clean_start" -> DFLen(region_df_raw)
      [] pc = "detect_header" -> DFLen(df)
      [] OTHER -> DFLen(df_data)

\* number of rows of the table a stage hands on
RowsAfter == IF pc' = "detect_header" THEN DFLen(df') ELSE DFLen(df_data')

\* C2: no stage of clean_single_sheet adds a row, and when it returns,
\* rows_out <= rows_in and the returned table has exactly rows_out rows.
C2_RowsOnlyShrink ==
    [][ /\ RowsAfter <= RowsBefore
        /\ pc' = "done" =>
              /\ metadata'.rows_out <= metadata'.rows_in
              /\ DFLen(df_data') = metadata'.rows_out ]_vars

\* a run that returned a non-empty table after removing the header band, a
\* repeated header row and a total row
C2_Witness ==
    /\ pc = "done"
    /\ metadata.rows_out > 0
    /\ metadata.repeated_header_rows_dropped > 0
    /\ metadata.totals_rows_dropped > 0
    /\ metadata.rows_out + 2 < metadata.rows_in
    /\ DFLen(df_data) = metadata.rows_out

\* position of the __is_total_row column, 0 when the table has none
TotalTagPos(frame) ==
    IF IsTotalRowCol \in SeqToSet(frame.columns) THEN FirstColPos(frame, IsTotalRowCol) ELSE 0

\* rows of the table whose __is_total_row cell is True
TaggedTotalRows(frame) ==
    IF TotalTagPos(frame) = 0 THEN {}
    ELSE {i \in 1..DFLen(frame) : frame.rows[i][TotalTagPos(frame)] = TrueCell}

ReviewWarning(k) == <<"potential total row(s) flagged for review.", k>>

\* C5: after the total-row stage every flagged row is either removed and
\* counted in totals_rows_dropped or still in the table with its tag True:
\* flagged = dropped + remaining tagged rows, dropped <= flagged, and when
\* flagged > dropped the metadata carries the flagged-for-review warning.
C5_FlaggedRowsAccounted ==
    pc \in {"context_fill", "tag_duplicates", "done"} =>
        /\ metadata.totals_rows_flagged =
              metadata.totals_rows_dropped + Cardinality(TaggedTotalRows(df_data))
        /\ metadata.totals_rows_dropped <= metadata.totals_rows_flagged
        /\ metadata.totals_rows_flagged > metadata.totals_rows_dropped =>
              ReviewWarning(metadata.totals_rows_flagged - metadata.totals_rows_dropped)
                  \in SeqToSet(metadata.warnings)

\* a table from which one total row was removed while another stays tagged,
\* with the warning raised
C5_Witness ==
    /\ pc = "done"
    /\ metadata.totals_rows_dropped > 0
    /\ metadata.totals_rows_flagged > metadata.totals_rows_dropped
    /\ TaggedTotalRows(df_data) # {}
    /\ ReviewWarning(metadata.totals_rows_flagged - metadata.totals_rows_dropped)
           \in SeqToSet(metadata.warnings)

\* the data cells of a row that are not blank, as stripped text
NonBlankData(row) ==
    LET ne == NonEmptyPositions(row)
    IN [k \in 1..Len(ne) |-> Strip(AsStr(row[ne[k]]))]

\* the confidence rule as stated: a specific keyword, and at least 70% of the
\* row's non-blank data values numeric or the row within the last 10% of the
\* n rows (pos is the 1-based position of the row)
StatedHighConfidence(row, pos, n) ==
    LET row_str == RowStr(row)
        vals == NonBlankData(row)
        numeric == Cardinality({k \in 1..Len(vals) : IsNumericText(vals[k])})
    IN /\ \/ Contains(row_str, <<"g","r","a","n","d"," ","t","o","t","a","l">>)
          \/ Contains(row_str, <<"s","u","b","t","o","t","a","l">>)
       /\ \/ (Len(vals) > 0 /\ 10 * numeric >= 7 * Len(vals))
          \/ 10 * (pos - 1) >= 9 * n

\* the cells of a row without its last cell
WithoutLastCell(row) == SubSeq(row, 1, Len(row) - 1)

\* C6: detect_total_rows removes a flagged row exactly when the row has the
\* keyword grand total or subtotal and (at least 70% of its non-blank data
\* values are numeric or it lies in the last 10% of the rows); every other
\* row is kept.
C6_DroppedExactlyWhenHighConfidence ==
    [][ (pc = "total_rows" /\ ~DFEmpty(DropNaRows(df_data))) =>
          LET d == DropNaRows(df_data)
              n == DFLen(d)
              kept == SelectSeq([i \in 1..n |-> i],
                         LAMBDA i : ~(RowIsTotal(RowWithFlag(d.rows[i]))
                                      /\ StatedHighConfidence(d.rows[i], i, n)))
          IN [k \in 1..DFLen(df_data') |-> WithoutLastCell(df_data'.rows[k])]
                = [k \in 1..Len(kept) |-> d.rows[kept[k]]] ]_vars

\* the set of a row's non-blank stripped lowercased values
StatedRowSet(row) ==
    {LowerStr(Strip(row[c])) : c \in {k \in 1..Len(row) : row[k] # NA /\ Strip(row[k]) # <<>>}}

\* the repeated-header rule as stated
StatedRepeatedHeader(row, hdrs) ==
    LET row_set == StatedRowSet(row)
        header_set == HeaderSet(hdrs)
        overlap == Cardinality(row_set \cap header_set)
        position_matches == Cardinality({i \in 1..Len(hdrs) :
              i <= Len(row) /\ row[i] # NA
              /\ LowerStr(Strip(row[i])) = LowerStr(Strip(hdrs[i]))})
    IN /\ row_set # {}
       /\ \/ 10 * overlap >= 7 * Cardinality(row_set)
          \/ /\ 10 * position_matches >= 7 * Len(hdrs)
             /\ 100 * overlap >= 35 * Cardinality(header_set)

\* C7: detect_repeated_headers removes a body row exactly when, over the
\* row's non-blank stripped lowercased values, the overlap with the header set
\* is >= 0.70 of the row's values, or the positional match ratio is >= 0.70
\* and the overlap is >= 0.35 x the header-set size; every other row is kept
\* and the count is the number of removed rows.
C7_RepeatedHeaderRule ==
    [][ (pc = "repeated_headers" /\ ~DFEmpty(df_data) /\ HeaderSet(normalized_headers) # {}) =>
          LET n == DFLen(df_data)
              kept == SelectSeq([i \in 1..n |-> i],
                         LAMBDA i : ~StatedRepeatedHeader(df_data.rows[i], normalized_headers))
          IN /\ df_data'.rows = [k \in 1..Len(kept) |-> df_data.rows[kept[k]]]
             /\ metadata'.repeated_header_rows_dropped = n - Len(kept) ]_vars

\* a cell fill_down_context reads as blank
BlankCell(v) == v = NA \/ IsBlankText(Strip(AsStr(v)))

\* C9: in every context column a blank cell with a preceding non-blank cell
\* takes the value of the nearest one, and a blank cell with no preceding
\* non-blank cell is left untouched.
C9_ForwardFillOnly ==
    [][ pc = "context_fill" =>
          \A col \in SeqToSet(metadata'.context_columns_filled) :
             LET p == FirstColPos(df_data, col)
                 In(i) == df_data.rows[i][p]
                 Out(i) == df_data'.rows[i][p]
             IN \A i \in 1..DFLen(df_data) :
                   BlankCell(In(i)) =>
                      LET before == {j \in 1..(i - 1) : ~BlankCell(In(j))}
                      IN IF before = {} THEN Out(i) = In(i)
                         ELSE Out(i) = Out(SetMax(before)) /\ Out(i) = Strip(In(SetMax(before)))
      ]_vars

-----------------------------------------------------------------------------
(* analyze_column_types                                                    *)

\* int() of one digit character
DigitVal(c) ==
    CASE c = "0" -> 0 [] c = "1" -> 1 [] c = "2" -> 2 [] c = "3" -> 3 [] c = "4" -> 4
      [] c = "5" -> 5 [] c = "6" -> 6 [] c = "7" -> 7 [] c = "8" -> 8 [] c = "9" -> 9
      [] c = "arabic3" -> 3 [] OTHER -> 0

\* int() of the text a directive matched (digits, for %d perhaps after a blank)
RECURSIVE FieldVal(_)
FieldVal(t) ==
    IF Len(t) = 0 THEN 0
    ELSE 10 * FieldVal(SubSeq(t, 1, Len(t) - 1)) + DigitVal(t[Len(t)])

Digits19 == AsciiDigits \ {"0"}

\* the regular expression _strptime compiles for one directive, matched
\* against the whole of t
DirectiveMatches(d, t) ==
    CASE d = "%Y" -> Len(t) = 4 /\ \A i \in 1..4 : IsDigitChar(t[i])
      [] d = "%m" -> \/ Len(t) = 2 /\ t[1] = "1" /\ t[2] \in {"0", "1", "2"}
                     \/ Len(t) = 2 /\ t[1] = "0" /\ t[2] \in Digits19
                     \/ Len(t) = 1 /\ t[1] \in Digits19
      [] d = "%d" -> \/ Len(t) = 2 /\ t[1] = "3" /\ t[2] \in {"0", "1"}
                     \/ Len(t) = 2 /\ t[1] \in {"1", "2"} /\ IsDigitChar(t[2])
                     \/ Len(t) = 2 /\ t[1] = "0" /\ t[2] \in Digits19
                     \/ Len(t) = 1 /\ t[1] \in Digits19
                     \/ Len(t) = 2 /\ t[1] = " " /\ t[2] \in Digits19
      [] d = "%H" -> \/ Len(t) = 2 /\ t[1] = "2" /\ t[2] \in {"0", "1", "2", "3"}
                     \/ Len(t) = 2 /\ t[1] \in {"0", "1"} /\ IsDigitChar(t[2])
                     \/ Len(t) = 1 /\ IsDigitChar(t[1])
      [] d = "%M" -> \/ Len(t) = 2 /\ t[1] \in {"0", "1", "2", "3", "4", "5"} /\ IsDigitChar(t[2])
                     \/ Len(t) = 1 /\ IsDigitChar(t[1])
      [] d = "%S" -> \/ Len(t) = 2 /\ t[1] = "6" /\ t[2] \in {"0", "1"}
                     \/ Len(t) = 2 /\ t[1] \in {"0", "1", "2", "3", "4", "5"} /\ IsDigitChar(t[2])
                     \/ Len(t) = 1 /\ IsDigitChar(t[1])
      [] d = "%f" -> Len(t) \in 1..6 /\ \A i \in 1..Len(t) : t[i] \in AsciiDigits
      [] OTHER -> FALSE

Directives == {"%Y", "%m", "%d", "%H", "%M", "%S", "%f"}

\* every way the format elements from k on match s from pos to its end; a
\* match is the sequence of <<directive, value>> pairs it read.  A blank of
\* the format matches one or more whitespace characters, a literal matches
\* itself whatever its case.
RECURSIVE StrpMatches(_, _, _, _)
StrpMatches(fmt, k, s, pos) ==
    IF k > Len(fmt) THEN (IF pos = Len(s) + 1 THEN {<<>>} ELSE {})
    ELSE LET e == fmt[k]
         IN IF e = " "
            THEN UNION { StrpMatches(fmt, k + 1, s, q) :
                           q \in {r \in (pos + 1)..(Len(s) + 1) :
                                     \A j \in pos..(r - 1) : s[j] \in Whitespace} }
            ELSE IF e \in Directives
            THEN UNION { { <<<<e, FieldVal(Strip(SubSeq(s, pos, pos + n - 1)))>>>> \o m :
                             m \in StrpMatches(fmt, k + 1, s, pos + n) } :
                           n \in {w \in 1..6 : pos + w - 1 <= Len(s)
                                     /\ DirectiveMatches(e, SubSeq(s, pos, pos + w - 1))} }
            ELSE IF pos <= Len(s) /\ LowerChar(s[pos]) = LowerChar(e)
                 THEN StrpMatches(fmt, k + 1, s, pos + 1)
                 ELSE {}

IsLeapYear(y) == (y % 4 = 0 /\ y % 100 # 0) \/ y % 400 = 0

DaysInMonth(y, m) ==
    CASE m \in {1, 3, 5, 7, 8, 10, 12} -> 31
      [] m \in {4, 6, 9, 11} -> 30
      [] OTHER -> IF IsLeapYear(y) THEN 29 ELSE 28

\* the value of directive d in a match, dflt when the format has no d
FieldOf(m, d, dflt) ==
    IF \E i \in 1..Len(m) : m[i][1] = d
    THEN m[CHOOSE i \in 1..Len(m) : m[i][1] = d][2]
    ELSE dflt

\* datetime(year, month, day, hour, minute, second) accepts the fields
ValidDateTime(m) ==
    /\ FieldOf(m, "%Y", 1900) >= 1
    /\ FieldOf(m, "%d", 1) <= DaysInMonth(FieldOf(m, "%Y", 1900), FieldOf(m, "%m", 1))
    /\ FieldOf(m, "%S", 0) <= 59

\* datetime.strptime(val_str, fmt) returns (does not raise ValueError)
StrptimeOk(val_str, fmt) == \E m \in StrpMatches(fmt, 1, val_str, 1) : ValidDateTime(m)

date_only_formats ==
    << <<"%Y", "-", "%m", "-", "%d">>,
       <<"%m", "/", "%d", "/", "%Y">>,
       <<"%d", "/", "%m", "/", "%Y">> >>

timestamp_formats ==
    << <<"%Y", "-", "%m", "-", "%d", " ", "%H", ":", "%M", ":", "%S">>,
       <<"%m", "/", "%d", "/", "%Y", " ", "%H", ":", "%M", ":", "%S">>,
       <<"%d", "/", "%m", "/", "%Y", " ", "%H", ":", "%M", ":", "%S">>,
       <<"%Y", "-", "%m", "-", "%d", "T", "%H", ":", "%M", ":", "%S">> >>

ParsesWithAny(val_str, formats) == \E f \in 1..Len(formats) : StrptimeOk(val_str, formats[f])

\* what the loop body does with one value of the series
ValueKind(val) ==
    LET val_str == Strip(val)
    IN IF val_str = <<>> \/ LowerStr(val_str) \in
                               { <<"n","a","n">>, <<"n","o","n","e">>, <<"n","u","l","l">> }
       THEN "skipped"
       ELSE IF IsPyInt(val_str) THEN "int"
       ELSE IF IsPyFloat(val_str) THEN "float"
       ELSE IF ParsesWithAny(val_str, date_only_formats) THEN "date"
       ELSE IF ParsesWithAny(val_str, timestamp_formats) THEN "timestamp"
       ELSE "text"

\* round(count / total * 100, 1), in tenths of a percent
PctTenths(count, total) == (2000 * count + total) \div (2 * total)

DefaultProfile ==
    [pct_int |-> 0, pct_float |-> 0, pct_date |-> 0,
     recommended_type |-> "VARCHAR", sample_values |-> <<>>]

\* the profile of the column named col (the first column of that name)
ColumnProfile(frame, col) ==
    LET p == FirstColPos(frame, col)
        present == SelectSeq([i \in 1..DFLen(frame) |-> frame.rows[i][p]], LAMBDA v : v # NA)
        series == [i \in 1..Len(present) |-> AsStr(present[i])]
        total == Len(series)
        kinds == [i \in 1..total |-> ValueKind(series[i])]
        Count(ks) == Cardinality({i \in 1..total : kinds[i] \in ks})
        int_count == Count({"int"})
        float_count == Count({"float"})
        date_count == Count({"date", "timestamp"})
        has_timestamp == Count({"timestamp"}) > 0
    IN IF total = 0 THEN DefaultProfile
       ELSE [pct_int |-> PctTenths(int_count, total),
             pct_float |-> PctTenths(float_count, total),
             pct_date |-> PctTenths(date_count, total),
             recommended_type |->
                 IF 5 * date_count >= 4 * total
                 THEN (IF has_timestamp THEN "TIMESTAMP_NTZ" ELSE "DATE")
                 ELSE IF 10 * int_count >= 9 * total THEN "INTEGER"
                 ELSE IF 5 * float_count >= 4 * total THEN "FLOAT"
                 ELSE "VARCHAR",
             sample_values |-> SubSeq(series, 1, SetMin({3, total}))]

\* the dict returned: one profile per column name other than __possible_duplicate
analyze_column_types(frame) ==
    IF DFEmpty(frame) THEN <<>>
    ELSE [col \in SeqToSet(frame.columns) \ {PossibleDuplicateCol} |-> ColumnProfile(frame, col)]

-----------------------------------------------------------------------------
(* Specification of analyze_column_types over bounded columns              *)

MaxColumnLen == 4

ValueColumn == <<"v">>

\* a cleaned table with one data column holding the cells and the two tag columns
TypeFrame(cells) ==
    TagDuplicateRows(DF(RangeIndex(Len(cells)), <<ValueColumn, IsTotalRowCol>>,
                        [i \in 1..Len(cells) |-> <<cells[i], FalseCell>>]))

TypeCells ==
    { NA, <<" ">>, <<"1">>, <<"x">>, <<"1",".","5">>,
      <<"2","0","2","4","-","0","1","-","1","5">>,
      <<"2","0","2","4","-","0","1","-","1","5","T","1","0",":","3","0",":","0","0">> }

\* values that reach the less common branches of the parsers
RareCells ==
    { <<"n","a","n">>, <<"N","o","n","e">>, <<"+","5">>, <<"1","_","0">>, <<"1","e","3">>,
      <<"i","n","f">>, <<".","5">>, <<"1",".">>, <<"arabic3">>, <<"1",",","0","0","0">>,
      <<"1","5","/","0","1","/","2","0","2","4">>,
      <<"1","/","5","/","2","0","2","4">>,
      <<"2","0","2","4","-","0","2","-","3","0">>,
      <<"2","0","2","4","-","0","2","-","2","9">>,
      <<"2","0","2","3","-","0","2","-","2","9">>,
      <<"0","0","0","0","-","0","1","-","0","1">>,
      <<"2","0","2","4","-","1","3","-","0","1">>,
      <<"2","0","2","4","-","0","1","-","1","5"," "," ","1","0",":","3","0",":","0","0">>,
      <<"1","2","/","3","1","/","2","0","2","4"," ","2","3",":","5","9",":","6","0">>,
      <<"2","0","2","4","-","0","1","-","1","5","t","9",":","5",":","7">>,
      <<"2","0","2","4","/","0","1","/","1","5">> }

TypeColumns ==
    UNION { [1..n -> TypeCells] : n \in 0..MaxColumnLen }
    \cup { <<c>> : c \in RareCells }

InitTypes ==
    /\ pc = "analyze_types"
    /\ type_df \in { TypeFrame(cells) : cells \in TypeColumns }
    /\ type_analysis = <<>>
    /\ IdleHeaders /\ IdleRegions /\ IdleClean /\ IdleOrch
    /\ IdleRate

AnalyzeTypes ==
    /\ pc = "analyze_types"
    /\ type_analysis' = analyze_column_types(type_df)
    /\ pc' = "done"
    /\ UNCHANGED <<type_df, headerVars, regionVars, cleanVars, orchVars, rateVars>>

NextTypes == AnalyzeTypes

SpecTypes == InitTypes /\ [][NextTypes]_vars

\* C8: the recommended type follows from rates taken over the column's
\* non-blank values: DATE/TIMESTAMP_NTZ when the date rate is >= 80%
\* (TIMESTAMP_NTZ exactly when a value matched a timestamp format), otherwise
\* INTEGER when the integer rate is >= 90%, otherwise FLOAT when the float rate
\* is >= 80%, otherwise VARCHAR.
C8_TypeFromNonBlankRates ==
    (pc = "done" /\ ~DFEmpty(type_df)) =>
        LET p == FirstColPos(type_df, ValueColumn)
            kinds == [i \in 1..DFLen(type_df) |->
                         IF type_df.rows[i][p] = NA THEN "skipped"
                         ELSE ValueKind(type_df.rows[i][p])]
            Count(ks) == Cardinality({i \in 1..DFLen(type_df) : kinds[i] \in ks})
            non_blank == Count({"int", "float", "date", "timestamp", "text"})
            dates == Count({"date", "timestamp"})
        IN non_blank > 0 =>
             type_analysis[ValueColumn].recommended_type =
                 IF 5 * dates >= 4 * non_blank
                 THEN (IF Count({"timestamp"}) > 0 THEN "TIMESTAMP_NTZ" ELSE "DATE")
                 ELSE IF 10 * Count({"int"}) >= 9 * non_blank THEN "INTEGER"
                 ELSE IF 5 * Count({"float"}) >= 4 * non_blank THEN "FLOAT"
                 ELSE "VARCHAR"

-----------------------------------------------------------------------------
(* find_candidate_keys and validate_data_for_sql                           *)

\* the non-missing values of the first column named col
ColumnDropNa(frame, col) ==
    LET p == FirstColPos(frame, col)
    IN SelectSeq([i \in 1..DFLen(frame) |-> frame.rows[i][p]], LAMBDA v : v # NA)

find_candidate_keys(frame) ==
    IF DFEmpty(frame) THEN <<>>
    ELSE LET n_rows == DFLen(frame)
             IsKey(col) ==
                 LET series == ColumnDropNa(frame, col)
                 IN /\ col # PossibleDuplicateCol
                    /\ Len(series) > 0
                    /\ 10 * Len(series) >= 7 * n_rows
                    /\ 10 * Cardinality(SeqToSet(series)) >= 7 * Len(series)
         IN SelectSeq(frame.columns, IsKey)

\* len(c.encode('utf-8')) of one character
Utf8Len(c) ==
    IF c \in NonAsciiLower \cup NonAsciiUpper \cup NonAsciiDigits THEN 2
    ELSE 1

RECURSIVE ByteLen(_)
ByteLen(s) == IF Len(s) = 0 THEN 0 ELSE Utf8Len(s[1]) + ByteLen(Tail(s))

VarcharMaxBytes == 16777216
LargeValueBytes == 100000

\* float(s) parses to a finite number
IsFiniteFloat(s) ==
    /\ IsPyFloat(s)
    /\ LowerStr(SubSeq(s, SignLen(s) + 1, Len(s))) \notin
           { <<"i","n","f">>, <<"n","a","n">>, <<"i","n","f","i","n","i","t","y">> }

\* str(val).replace(',', '').replace('$', '').strip()
NumericText(val) == Strip(SelectSeq(val, LAMBDA c : c \notin {",", "$"}))

\* pd.to_datetime(val_str, errors='raise') returns, for the texts of the
\* modelled formats; other texts are taken as rejected
ToDatetimeOk(val_str) == ValueKind(val_str) \in {"date", "timestamp"}

\* the messages validate_data_for_sql adds for one column (lines 1222-1295); the
\* range test of an INTEGER value needs a magnitude of 1e38, which no text of
\* the bounded inputs reaches
ColumnValidation(frame, col, recommended_type) ==
    LET series == ColumnDropNa(frame, col)
        Invalid(Ok(_)) == Cardinality({i \in 1..Len(series) : ~Ok(series[i])})
        max_len == SetMax({0} \cup {ByteLen(series[i]) : i \in 1..Len(series)})
        long_values == Cardinality({i \in 1..Len(series) : ByteLen(series[i]) > VarcharMaxBytes})
        invalid_numbers == Invalid(LAMBDA v : IsFiniteFloat(NumericText(v)))
        invalid_dates == Invalid(LAMBDA v : ToDatetimeOk(Strip(v)))
    IN IF Len(series) = 0 THEN [warnings |-> <<>>, errors |-> <<>>]
       ELSE CASE recommended_type = "VARCHAR" ->
                   [warnings |-> AppendIf(long_values = 0 /\ max_len > LargeValueBytes, <<>>,
                                     <<"Contains very large values", col, max_len>>),
                    errors |-> AppendIf(long_values > 0, <<>>,
                                     <<"value(s) exceed Snowflake VARCHAR max (16MB)", col, long_values>>)]
              [] recommended_type \in {"INTEGER", "FLOAT"} ->
                   [warnings |-> AppendIf(invalid_numbers > 0, <<>>,
                                     <<"value(s) cannot be converted", col, invalid_numbers,
                                       recommended_type>>),
                    errors |-> <<>>]
              [] OTHER ->
                   [warnings |-> AppendIf(invalid_dates > 0 /\ 10 * invalid_dates > Len(series), <<>>,
                                     <<"value(s) may not be valid format", col, invalid_dates,
                                       Len(series), recommended_type>>),
                    errors |-> <<>>]

RECURSIVE ValidateColumns(_, _, _, _)
ValidateColumns(frame, analysis, k, acc) ==
    IF k > Len(frame.columns) THEN acc
    ELSE LET col == frame.columns[k]
             r == ColumnValidation(frame, col,
                     IF col \in DOMAIN analysis THEN analysis[col].recommended_type ELSE "VARCHAR")
         IN IF col \in InternalCols THEN ValidateColumns(frame, analysis, k + 1, acc)
            ELSE ValidateColumns(frame, analysis, k + 1,
                                 [warnings |-> acc.warnings \o r.warnings,
                                  errors |-> acc.errors \o r.errors])

validate_data_for_sql(frame, analysis) ==
    IF DFEmpty(frame) THEN [warnings |-> <<>>, errors |-> <<>>]
    ELSE ValidateColumns(frame, analysis, 1, [warnings |-> <<>>, errors |-> <<>>])

-----------------------------------------------------------------------------
(* normalize_spreadsheet: the loop over sheets and regions, the quality     *)
(* flags and the run status.  A stored table is kept by its shape           *)
(* (sanitize_for_sql rewrites cells and keeps rows and columns); the files  *)
(* written afterwards are outside the model.                                *)

\* df_raw.loc[min_row:max_row, min_col:max_col] of a sheet grid
RegionSlice(grid, region) ==
    DF([i \in 1..(region.max_row - region.min_row + 1) |-> region.min_row + i - 1], <<>>,
       [i \in 1..(region.max_row - region.min_row + 1) |->
           SubSeq(grid[region.min_row + i], region.min_col + 1, region.max_col + 1)])

\* f"table{region_idx:02d}"
TableId(k) == <<"t","a","b","l","e">> \o (IF k < 10 THEN <<"0">> ELSE <<>>) \o IntToStr(k)

VirtualSheetName(sheet_name, k, n_regions) ==
    IF n_regions > 1 THEN sheet_name \o <<"_","_">> \o TableId(k) ELSE sheet_name

\* d[key] = value on a dict kept as a sequence of <<key, value>> in insertion order
DictSet(d, key, value) ==
    IF \E i \in 1..Len(d) : d[i][1] = key
    THEN [i \in 1..Len(d) |-> IF d[i][1] = key THEN <<key, value>> ELSE d[i]]
    ELSE Append(d, <<key, value>>)

DictKeys(d) == {d[i][1] : i \in 1..Len(d)}
DictGet(d, key) == d[CHOOSE i \in 1..Len(d) : d[i][1] = key][2]

\* [f"{name}: {m}" for m in messages]
Prefixed(name, messages) == [i \in 1..Len(messages) |-> <<name, messages[i]>>]

AmbiguousError(sheet_name) == <<"Data structure issue in sheet. The sheet will be skipped.", sheet_name>>
OtherError == <<"error raised while the sheet was processed">>
ReadError == <<"error raised while the sheet was read">>

\* lines 1779-1793: what stands in for the result of a clean_single_sheet call
\* that raised the ValueError the handler recognises
AmbiguousResult(raw, sheet_name) ==
    [df |-> DF(<<>>, <<>>, <<>>),
     metadata |-> [InitMetadata(DFLen(raw)) EXCEPT !.errors = <<AmbiguousError(sheet_name)>>]]

\* int(df_clean["__possible_duplicate"].sum())
DuplicateRowCount(frame) ==
    IF PossibleDuplicateCol \in SeqToSet(frame.columns)
    THEN Cardinality({i \in 1..DFLen(frame) :
                         frame.rows[i][FirstColPos(frame, PossibleDuplicateCol)] = TrueCell})
    ELSE 0

\* type_counts: recommended type -> number of columns
TypeCounts(analysis) ==
    LET types == {analysis[c].recommended_type : c \in DOMAIN analysis}
    IN [t \in types |-> Cardinality({c \in DOMAIN analysis : analysis[c].recommended_type = t})]

\* lines 1871-1896: the metadata row of a region
RegionMetaRow(name, sheet_name, source_table_id, region, df_clean, md, analysis, warnings, errors) ==
    [tab_name |-> name,
     source_tab |-> sheet_name,
     source_table_id |-> source_table_id,
     clean_status |-> "OK",
     rows_in |-> md.rows_in,
     rows_out |-> md.rows_out,
     rows_after_clean |-> DFLen(df_clean),
     columns_after_clean |-> Len(df_clean.columns),
     header_row_index |-> md.header_row_index,
     header_depth_used |-> md.header_depth_used,
     table_bounds |-> region.bounds,
     possible_key_columns |-> find_candidate_keys(df_clean),
     exact_duplicate_rows |-> DuplicateRowCount(df_clean),
     duplicate_column_names_fixed |-> md.duplicate_column_names_fixed,
     repeated_header_rows_dropped |-> md.repeated_header_rows_dropped,
     totals_rows_flagged |-> md.totals_rows_flagged,
     totals_rows_dropped |-> md.totals_rows_dropped,
     context_columns_filled |-> md.context_columns_filled,
     type_recommendations |-> TypeCounts(analysis),
     warnings |-> warnings,
     errors |-> errors,
     comments |-> <<>>,
     data_quality_flag |-> ""]

\* lines 1817-1896, once the messages of the validation are known; the list
\* `warnings` is clean_metadata['warnings'] itself, so the row and the stored
\* metadata carry the split warning and the validation messages
RegionRecord(name, sheet_name, source_table_id, n_regions, region, df_clean, md, analysis, validation, warnings, errors) ==
    [name |-> name,
     info |-> Prefixed(name, md.info),
     warnings |-> Prefixed(name, md.warnings) \o Prefixed(name, validation.warnings),
     errors |-> Prefixed(name, md.errors) \o Prefixed(name, validation.errors),
     shape |-> [rows |-> DFLen(df_clean), columns |-> Len(df_clean.columns)],
     metadata |-> [clean |-> [md EXCEPT !.warnings = warnings, !.errors = errors],
                   table_bounds |-> region.bounds,
                   type_analysis |-> analysis,
                   source_tab |-> sheet_name,
                   source_table_id |-> source_table_id],
     meta_row |-> RegionMetaRow(name, sheet_name, source_table_id, region, df_clean, md,
                                analysis, warnings, errors)]

\* lines 1826-1835
RegionValidated(name, sheet_name, source_table_id, n_regions, region, df_clean, md, analysis, validation) ==
    RegionRecord(name, sheet_name, source_table_id, n_regions, region, df_clean, md, analysis,
                 validation,
                 AppendIf(n_regions > 1, md.warnings,
                          <<"Sheet split into table region(s).", n_regions>>)
                    \o validation.warnings,
                 md.errors \o validation.errors)

RegionAnalysed(name, sheet_name, source_table_id, n_regions, region, df_clean, md, analysis) ==
    RegionValidated(name, sheet_name, source_table_id, n_regions, region, df_clean, md, analysis,
                    validate_data_for_sql(df_clean, analysis))

\* lines 1797-1896: what one region adds to the run, given the result of its
\* clean_single_sheet call (or of the handler at 1774-1793)
RegionOutcome(sheet_name, k, n_regions, region, result) ==
    RegionAnalysed(VirtualSheetName(sheet_name, k, n_regions), sheet_name,
                   IF n_regions > 1 THEN TableId(k) ELSE <<>>,
                   n_regions, region, result.df, result.metadata,
                   analyze_column_types(result.df))

\* an error row that reports one row and one column
SheetErrorRow_Counts(sheet_name, error_msg) ==
    [tab_name |-> sheet_name, source_tab |-> sheet_name, source_table_id |-> <<>>,
     clean_status |-> "ERROR", rows_in |-> 1, rows_out |-> 1,
     rows_after_clean |-> 1, columns_after_clean |-> 1,
     header_row_index |-> 0, header_depth_used |-> 0, table_bounds |-> <<>>,
     possible_key_columns |-> <<>>, exact_duplicate_rows |-> 0,
     duplicate_column_names_fixed |-> 0, repeated_header_rows_dropped |-> 0,
     totals_rows_flagged |-> 0, totals_rows_dropped |-> 0,
     context_columns_filled |-> <<>>, type_recommendations |-> <<>>,
     warnings |-> <<>>, errors |-> <<error_msg>>, comments |-> <<error_msg>>,
     data_quality_flag |-> ""]

\* lines 1901-1926: the row of a sheet whose processing raised
SheetErrorRow(sheet_name, error_msg) ==
    [tab_name |-> sheet_name, source_tab |-> sheet_name, source_table_id |-> <<>>,
     clean_status |-> "ERROR", rows_in |-> 0, rows_out |-> 0,
     rows_after_clean |-> 0, columns_after_clean |-> 0,
     header_row_index |-> 0, header_depth_used |-> 0, table_bounds |-> <<>>,
     possible_key_columns |-> <<>>, exact_duplicate_rows |-> 0,
     duplicate_column_names_fixed |-> 0, repeated_header_rows_dropped |-> 0,
     totals_rows_flagged |-> 0, totals_rows_dropped |-> 0,
     context_columns_filled |-> <<>>, type_recommendations |-> <<>>,
     warnings |-> <<>>, errors |-> <<error_msg>>, comments |-> <<error_msg>>,
     data_quality_flag |-> ""]

HighDuplicateCount == 100

\* a flag that forgets the duplicate count
flag_NoDuplicates(row) ==
    IF row.clean_status # "OK" THEN "ERROR - Check tab"
    ELSE IF row.errors # <<>> THEN "ERROR - Check tab"
    ELSE IF row.warnings # <<>> THEN "REVIEW - Warnings present"
    ELSE IF row.totals_rows_dropped > 0 THEN "REVIEW - Totals removed"
    ELSE IF row.repeated_header_rows_dropped > 0 THEN "REVIEW - Repeated headers removed"
    ELSE "OK"

\* lines 1931-1958
flag(row) ==
    IF row.clean_status # "OK" THEN "ERROR - Check tab"
    ELSE IF row.errors # <<>> THEN "ERROR - Check tab"
    ELSE IF row.warnings # <<>> THEN "REVIEW - Warnings present"
    ELSE IF row.exact_duplicate_rows >= HighDuplicateCount THEN "REVIEW - High duplicate count"
    ELSE IF row.totals_rows_dropped > 0 THEN "REVIEW - Totals removed"
    ELSE IF row.repeated_header_rows_dropped > 0 THEN "REVIEW - Repeated headers removed"
    ELSE "OK"

\* lines 2030-2036
RunStatus(errors, warnings) ==
    IF errors # <<>> THEN "error" ELSE IF warnings # <<>> THEN "partial" ELSE "success"

MaxFaults == 1          \* failures raised in one run
MaxSheets == 2          \* sheets of a workbook

OrchFrame == <<headerVars, cleanVars, typeVars, rateVars>>

CurrentSheet == workbook[sheet_idx]

\* lines 1750-1757: the next sheet is read and its regions are detected
StartSheet ==
    /\ pc = "next_sheet"
    /\ sheet_idx < Len(workbook)
    /\ sheet_idx' = sheet_idx + 1
    /\ df_raw' = workbook[sheet_idx + 1].grid
    /\ regions' = detect_table_regions(workbook[sheet_idx + 1].grid)
    /\ region_idx' = 0
    /\ pc' = "regions"
    /\ UNCHANGED <<workbook, cleaned_sheets, sheet_metadata, meta_rows, all_errors,
                   all_warnings, all_info, status, faults, OrchFrame>>

\* lines 1752 and 1898-1926: read_excel raises for the next sheet
SheetReadFails ==
    /\ pc = "next_sheet"
    /\ sheet_idx < Len(workbook)
    /\ Cardinality(faults) < MaxFaults
    /\ sheet_idx' = sheet_idx + 1
    /\ faults' = faults \cup {<<sheet_idx + 1, 0, "read">>}
    /\ all_errors' = Append(all_errors, <<workbook[sheet_idx + 1].name, ReadError>>)
    /\ meta_rows' = Append(meta_rows, SheetErrorRow(workbook[sheet_idx + 1].name, ReadError))
    /\ UNCHANGED <<pc, workbook, df_raw, regions, region_idx, cleaned_sheets, sheet_metadata,
                   all_warnings, all_info, status, OrchFrame>>

\* what the run keeps of a region that went through the loop body;
\* early_errors is what line 1778 added before
StoreRegion(out, early_errors) ==
    /\ region_idx' = region_idx + 1
    /\ all_info' = all_info \o out.info
    /\ all_warnings' = all_warnings \o out.warnings
    /\ all_errors' = all_errors \o early_errors \o out.errors
    /\ cleaned_sheets' = DictSet(cleaned_sheets, out.name, out.shape)
    /\ sheet_metadata' = DictSet(sheet_metadata, out.name, out.metadata)
    /\ meta_rows' = Append(meta_rows, out.meta_row)
    /\ UNCHANGED <<pc, workbook, sheet_idx, df_raw, regions, status, OrchFrame>>

\* lines 1760-1896 with a clean_single_sheet call that returns
RegionCleaned ==
    /\ pc = "regions"
    /\ region_idx < Len(regions)
    /\ StoreRegion(RegionOutcome(CurrentSheet.name, region_idx + 1, Len(regions),
                                 regions[region_idx + 1],
                                 clean_single_sheet(RegionSlice(df_raw, regions[region_idx + 1]))),
                   <<>>)
    /\ UNCHANGED faults

\* lines 1774-1793, then 1797-1896: clean_single_sheet raises a ValueError whose
\* text holds "truth value" or "ambiguous"
RegionAmbiguous ==
    /\ pc = "regions"
    /\ region_idx < Len(regions)
    /\ Cardinality(faults) < MaxFaults
    /\ faults' = faults \cup {<<sheet_idx, region_idx + 1, "ambiguous">>}
    /\ StoreRegion(RegionOutcome(CurrentSheet.name, region_idx + 1, Len(regions),
                                 regions[region_idx + 1],
                                 AmbiguousResult(RegionSlice(df_raw, regions[region_idx + 1]),
                                                 CurrentSheet.name)),
                   << <<VirtualSheetName(CurrentSheet.name, region_idx + 1, Len(regions)),
                        AmbiguousError(CurrentSheet.name)>> >>)

\* line 1795 (or an exception that is no ValueError), then 1898-1926: the
\* failure leaves the loop over the regions and is handled for the sheet
RegionRaises ==
    /\ pc = "regions"
    /\ region_idx < Len(regions)
    /\ Cardinality(faults) < MaxFaults
    /\ faults' = faults \cup {<<sheet_idx, region_idx + 1, "other">>}
    /\ all_errors' = Append(all_errors, <<CurrentSheet.name, OtherError>>)
    /\ meta_rows' = Append(meta_rows, SheetErrorRow(CurrentSheet.name, OtherError))
    /\ pc' = "next_sheet"
    /\ UNCHANGED <<workbook, sheet_idx, df_raw, regions, region_idx, cleaned_sheets,
                   sheet_metadata, all_warnings, all_info, status, OrchFrame>>

\* the loop over the regions of the sheet ends
EndSheet ==
    /\ pc = "regions"
    /\ region_idx = Len(regions)
    /\ pc' = "next_sheet"
    /\ UNCHANGED <<workbook, sheet_idx, df_raw, regions, region_idx, cleaned_sheets,
                   sheet_metadata, meta_rows, all_errors, all_warnings, all_info, status,
                   faults, OrchFrame>>

\* lines 1928-1960 and 2030-2036: the quality flags and the status
FinishRun ==
    /\ pc = "next_sheet"
    /\ sheet_idx = Len(workbook)
    /\ meta_rows' = [i \in 1..Len(meta_rows) |->
                        [meta_rows[i] EXCEPT !.data_quality_flag = flag(meta_rows[i])]]
    /\ status' = RunStatus(all_errors, all_warnings)
    /\ pc' = "done"
    /\ UNCHANGED <<workbook, sheet_idx, df_raw, regions, region_idx, cleaned_sheets,
                   sheet_metadata, all_errors, all_warnings, all_info, faults, OrchFrame>>

\* 2x2 tables: a header row and one body row
H1 == <<"h">>
H2 == <<"k">>
OrchBlocks ==
    { << <<H1, H2>>, << <<"1">>, <<"2">> >> >>,
      << <<H1, H2>>, << <<"T","o","t","a","l">>, <<"5">> >> >>,
      << <<H1, H2>>, <<H1, H2>> >>,
      << <<NA, NA>>, <<NA, NA>> >> }

SheetNames == << <<"S","1">>, <<"S","2">>, <<"S","3">> >>

\* a header row and n equal body rows
DuplicateGrid(n) == << <<H1, H2>> >> \o [i \in 1..n |-> << <<"1">>, <<"2">> >>]

\* tables just below and at the duplicate count the flag looks for
DuplicateGrids == { DuplicateGrid(HighDuplicateCount - 1), DuplicateGrid(HighDuplicateCount) }

\* the sheets a workbook starts with, and the few that may follow
FirstGrids == OrchBlocks \cup { QuadrantGrid(a, b, c, d) : a, b, c, d \in OrchBlocks }
                  \cup DuplicateGrids
LaterGrids ==
    { << <<H1, H2>>, << <<"1">>, <<"2">> >> >>,
      QuadrantGrid(<< <<H1, H2>>, << <<"1">>, <<"2">> >> >>,
                   << <<H1, H2>>, << <<"T","o","t","a","l">>, <<"5">> >> >>,
                   << <<NA, NA>>, <<NA, NA>> >>,
                   << <<H1, H2>>, << <<"1">>, <<"2">> >> >>) }

Workbooks ==
    { [i \in 1..n |-> [name |-> SheetNames[i], grid |-> IF i = 1 THEN g ELSE later[i]]] :
        n \in 1..MaxSheets, g \in FirstGrids, later \in [1..MaxSheets -> LaterGrids] }

InitOrch ==
    /\ pc = "next_sheet"
    /\ workbook \in Workbooks
    /\ sheet_idx = 0 /\ region_idx = 0
    /\ df_raw = <<>> /\ regions = <<>>
    /\ cleaned_sheets = <<>> /\ sheet_metadata = <<>> /\ meta_rows = <<>>
    /\ all_errors = <<>> /\ all_warnings = <<>> /\ all_info = <<>>
    /\ status = <<>> /\ faults = {}
    /\ IdleHeaders /\ IdleClean /\ IdleTypes
    /\ IdleRate

NextOrch ==
    \/ StartSheet
    \/ SheetReadFails
    \/ RegionCleaned
    \/ RegionAmbiguous
    \/ RegionRaises
    \/ EndSheet
    \/ FinishRun

SpecOrch == InitOrch /\ [][NextOrch]_vars

\* names of the tables the run should hold: every region of every sheet that
\* was read
ExpectedTables ==
    UNION { { [sheet |-> s, region |-> k,
               name |-> VirtualSheetName(workbook[s].name, k,
                                         Len(detect_table_regions(workbook[s].grid)))] :
                k \in 1..Len(detect_table_regions(workbook[s].grid)) } :
            s \in {t \in 1..Len(workbook) : <<t, 0, "read">> \notin faults} }

CleanFailed(t) == \E kind \in {"ambiguous", "other"} : <<t.sheet, t.region, kind>> \in faults

\* C3: when cleaning one region fails, whatever the kind of failure, that
\* table is recorded as an error-tagged entry with an empty body, and every
\* other region of the sheet still gets its cleaned table and its metadata row.
C3_RegionFailureIsLocal ==
    pc = "done" =>
        \A t \in ExpectedTables :
            /\ t.name \in DictKeys(cleaned_sheets)
            /\ \E i \in 1..Len(meta_rows) :
                  /\ meta_rows[i].tab_name = t.name
                  /\ CleanFailed(t) =>
                        /\ meta_rows[i].data_quality_flag = "ERROR - Check tab"
                        /\ DictGet(cleaned_sheets, t.name) = [rows |-> 0, columns |-> 0]
                  /\ ~CleanFailed(t) =>
                        /\ meta_rows[i].clean_status = "OK"
                        /\ meta_rows[i].rows_out =
                              clean_single_sheet(RegionSlice(workbook[t.sheet].grid,
                                  detect_table_regions(workbook[t.sheet].grid)[t.region])
                                ).metadata.rows_out

\* C12: the run status is error if any table or sheet recorded an error,
\* otherwise partial if the warning list of any table is non-empty (whichever
\* stage or the orchestrator added the warning), otherwise success.
C12_StatusFromTables ==
    pc = "done" =>
        status = IF \E i \in 1..Len(meta_rows) : meta_rows[i].errors # <<>> THEN "error"
                 ELSE IF \E i \in 1..Len(meta_rows) : meta_rows[i].warnings # <<>> THEN "partial"
                 ELSE "success"

QualityFlags ==
    { "OK", "REVIEW - Warnings present", "REVIEW - High duplicate count",
      "REVIEW - Totals removed", "REVIEW - Repeated headers removed", "ERROR - Check tab" }

FailedSheets == {f[1] : f \in {g \in faults : g[3] \in {"read", "other"}}}

\* the sheets no failure touched
CleanSheets == {t \in 1..Len(workbook) : \A f \in faults : f[1] # t}

\* the rows of the run that come from sheet t, in their order
RowsOfSheet(t) == SelectSeq(meta_rows, LAMBDA row : row.source_tab = workbook[t].name)

\* what the k-th region of sheet t adds to a run in which nothing fails
UndisturbedOutcome(t, k) ==
    RegionOutcome(workbook[t].name, k, Len(detect_table_regions(workbook[t].grid)),
                  detect_table_regions(workbook[t].grid)[k],
                  clean_single_sheet(RegionSlice(workbook[t].grid,
                                                 detect_table_regions(workbook[t].grid)[k])))

\* C14: a sheet whose processing fails gets exactly one row with Clean status
\* ERROR and zero rows and columns (the only row of the sheet when the sheet
\* could not be read), its error is in the run's error list, and every sheet
\* that did not fail has the rows, tables and metadata it has in a run without
\* any failure.
C14_SheetFailureIsLocal ==
    pc = "done" =>
        /\ \A s \in FailedSheets :
              /\ Cardinality({i \in 1..Len(meta_rows) :
                                 /\ meta_rows[i].source_tab = workbook[s].name
                                 /\ meta_rows[i].clean_status = "ERROR"}) = 1
              /\ \A i \in 1..Len(meta_rows) :
                    (meta_rows[i].source_tab = workbook[s].name /\ meta_rows[i].clean_status = "ERROR")
                    => /\ meta_rows[i].tab_name = workbook[s].name
                       /\ meta_rows[i].rows_in = 0 /\ meta_rows[i].rows_out = 0
                       /\ meta_rows[i].rows_after_clean = 0
                       /\ meta_rows[i].columns_after_clean = 0
                       /\ \E j \in 1..Len(all_errors) :
                             all_errors[j] = <<workbook[s].name, meta_rows[i].errors[1]>>
              /\ <<s, 0, "read">> \in faults => Len(RowsOfSheet(s)) = 1
        /\ \A t \in CleanSheets :
              LET n == Len(detect_table_regions(workbook[t].grid))
              IN /\ Len(RowsOfSheet(t)) = n
                 /\ \A k \in 1..n :
                       LET out == UndisturbedOutcome(t, k)
                       IN /\ RowsOfSheet(t)[k] =
                                [out.meta_row EXCEPT !.data_quality_flag = flag(out.meta_row)]
                          /\ out.name \in DictKeys(cleaned_sheets)
                          /\ DictGet(cleaned_sheets, out.name) = out.shape
                          /\ DictGet(sheet_metadata, out.name) = out.metadata

\* a run in which the first sheet could not be read and the second sheet,
\* with three tables, was processed
C14_Witness ==
    /\ pc = "done"
    /\ Len(workbook) = 2
    /\ <<1, 0, "read">> \in faults
    /\ Len(RowsOfSheet(1)) = 1
    /\ Len(RowsOfSheet(2)) = 3
    /\ Len(cleaned_sheets) = 3


-----------------------------------------------------------------------------
(* flatten_multirow_headers on its own: a header band at the top of a raw  *)
(* region, flattened once                                                  *)

MaxBandRows == 3
BandCellsFirst == {NA, <<" ">>, <<"S">>, <<"S", " ">>, <<"Q">>}
BandCellsSecond == {NA, <<"Q">>}
BandRows == {<<a, b>> : a \in BandCellsFirst, b \in BandCellsSecond}
BandFrames == UNION {{RegionAt(off, rows) : off \in RegionOffsets, rows \in [1..n -> BandRows]} : n \in 1..MaxBandRows}
BandDepths(frame) == {d \in 1..MaxHeaderDepth : d <= DFLen(frame)}

InitFlatten ==
    /\ pc = "flatten"
    /\ df \in BandFrames
    /\ \E d \in 1..MaxHeaderDepth :
          /\ d \in BandDepths(df)
          /\ metadata = [InitMetadata(DFLen(df)) EXCEPT !.header_row_index = df.index[1], !.header_depth_used = d]
    /\ IdleHeaders /\ IdleRegions /\ IdleTypes /\ IdleOrch
    /\ region_df_raw = <<>> /\ df_data = <<>> /\ normalized_headers = <<>>
    /\ IdleRate

\* header_row = flatten_multirow_headers(df, start_idx, header_depth)
FlattenHeaders ==
    /\ pc = "flatten"
    /\ headers' = flatten_multirow_headers(df, metadata.header_row_index, metadata.header_depth_used)
    /\ pc' = "done"
    /\ UNCHANGED <<final_headers, duplicate_count, regionVars, cleanVars, typeVars, orchVars, rateVars>>

NextFlatten == FlattenHeaders

SpecFlatten == InitFlatten /\ [][NextFlatten]_vars

\* the header text of one cell: nothing for a missing or blank cell
HeaderText(v) == IF v = NA THEN <<>> ELSE Strip(v)

\* the non-blank header texts of column col in the first depth rows, top down
RECURSIVE BandParts(_, _, _, _)
BandParts(frame, col, k, depth) ==
    IF k > depth THEN <<>>
    ELSE LET t == HeaderText(frame.rows[k][col])
         IN (IF t = <<>> THEN <<>> ELSE <<t>>) \o BandParts(frame, col, k + 1, depth)

\* a part equal to the part just before it is dropped
RECURSIVE Collapsed(_)
Collapsed(parts) ==
    IF Len(parts) < 2 THEN parts
    ELSE IF parts[1] = parts[2] THEN Collapsed(Tail(parts))
    ELSE <<parts[1]>> \o Collapsed(Tail(parts))

\* C16: for a band of depth 2 or 3 every column position gets its non-blank
\* stripped header texts joined with "_", consecutive equal parts collapsed,
\* or unnamed_col_<position> when it has none; for depth 1 the header row is
\* returned unchanged.
C16_FlattenedBand ==
    pc = "done" =>
        LET depth == metadata.header_depth_used
        IN IF depth = 1 THEN headers = df.rows[1]
           ELSE /\ Len(headers) = DFWidth(df)
                /\ \A col \in 1..DFWidth(df) :
                      LET parts == BandParts(df, col, 1, depth)
                      IN headers[col] = IF parts = <<>> THEN UnnamedColPrefix \o IntToStr(col)
                                        ELSE JoinWith(Collapsed(parts), <<"_">>)

\* depth 3, "S" over a blank over "S " collapses to "S", the second column
\* has no header text at all
C16_Witness ==
    /\ pc = "done" /\ DFLen(df) = 3
    /\ metadata.header_depth_used = 3
    /\ df.rows = << <<<<"S">>, NA>>, <<<<" ">>, NA>>, <<<<"S", " ">>, NA>> >>
    /\ df.index[1] = 1
    /\ headers = << <<"S">>, UnnamedColPrefix \o <<"2">> >>


-----------------------------------------------------------------------------
(* detect_header_depth on its own: the frame clean_single_sheet hands it,  *)
(* a raw region without its empty rows and columns                         *)

MaxDepthRows == 4
DepthWidths == {2, 3, 7}
\* <<text cells, numeric cells>> of a row, filled from the left
DepthShapes == {<<0, 0>>, <<1, 0>>, <<2, 0>>, <<1, 1>>, <<2, 1>>, <<0, 2>>}
\* the cells after them are, in the whole region, missing or empty strings
DepthFills == {NA, <<>>}
DepthRow(w, shape, fill) ==
    [c \in 1..w |-> IF c <= shape[1] THEN <<"a">>
                    ELSE IF c <= shape[1] + shape[2] THEN <<"1">>
                    ELSE fill]
DepthRowsOf(w, fill) == {DepthRow(w, sh, fill) : sh \in {x \in DepthShapes : x[1] + x[2] <= w}}

InitDepth ==
    /\ pc = "depth"
    /\ \E n \in 1..MaxDepthRows, w \in DepthWidths, f \in DepthFills, off \in RegionOffsets :
          \E rows \in [1..n -> DepthRowsOf(w, f)] : region_df_raw = RegionAt(off, rows)
    /\ df = CleanStartStep(region_df_raw).df
    /\ ~DFEmpty(df)
    /\ metadata = CleanStartStep(region_df_raw).metadata
    /\ df_data = <<>> /\ normalized_headers = <<>>
    /\ IdleHeaders /\ IdleRegions /\ IdleTypes /\ IdleOrch
    /\ IdleRate

\* header_idx, header_depth = detect_header_depth(df)
DetectDepth ==
    /\ pc = "depth"
    /\ LET hd == detect_header_depth(df)
       IN metadata' = [metadata EXCEPT !.header_row_index = hd[1], !.header_depth_used = hd[2]]
    /\ pc' = "done"
    /\ UNCHANGED <<headerVars, regionVars, region_df_raw, df, df_data, normalized_headers, typeVars, orchVars, rateVars>>

NextDepth == DetectDepth

SpecDepth == InitDepth /\ [][NextDepth]_vars

\* a cell that is neither missing nor the empty string
NonBlankCount(row) == Cardinality({c \in 1..Len(row) : row[c] # NA /\ row[c] # <<>>})

\* non-blank cell count >= max(2, 0.3 x column_count), nothing rounded
MeetsDensity(row) == NonBlankCount(row) >= 2 /\ 10 * NonBlankCount(row) >= 3 * Len(row)

\* C17: start_row is the first row whose non-blank cell count is at least
\* max(2, 0.3 x column_count), the threshold not rounded down; when no row
\* qualifies the first row is returned with depth 1.
C17_StartRowThreshold ==
    pc = "done" =>
        LET dense == {i \in 1..DFLen(df) : MeetsDensity(df.rows[i])}
        IN IF dense = {}
           THEN metadata.header_row_index = df.index[1] /\ metadata.header_depth_used = 1
           ELSE metadata.header_row_index = df.index[SetMin(dense)]


\* the non-blank cells of a row that parse as a number
NumericCount(row) == Cardinality({c \in 1..Len(row) : row[c] # NA /\ row[c] # <<>> /\ IsNumericText(Strip(row[c]))})

\* the region row `k - 1` rows below start_row can join the band: it is there,
\* meets the density threshold, and under half its non-blank cells are numeric
BandAccepts(frame, start_row, k) ==
    LET p == PosOfLabel(frame, start_row + k - 1)
    IN /\ p # 0
       /\ MeetsDensity(frame.rows[p])
       /\ 2 * NumericCount(frame.rows[p]) < NonBlankCount(frame.rows[p])

\* the largest depth, at most 3, all of whose rows after start_row are accepted
StatedDepth(frame, start_row) ==
    SetMax({d \in 1..MaxHeaderDepth : \A k \in 2..d : BandAccepts(frame, start_row, k)})

\* C18: the depth is 1, 2 or 3, never more than the rows from start_row on,
\* and it is the largest such value for which every row after start_row, up
\* to that depth, meets the density threshold and is under 50% numeric.
C18_LargestAcceptedDepth ==
    pc = "done" =>
        LET start_row == metadata.header_row_index
            depth == metadata.header_depth_used
        IN /\ depth \in 1..MaxHeaderDepth
           /\ depth <= DFLen(df) - PosOfLabel(df, start_row) + 1
           /\ depth = StatedDepth(df, start_row)


-----------------------------------------------------------------------------
(* sanitize_for_sql                                                        *)

\* ord(char) of the characters of the model: the control characters by their
\* code, space, and every other character as a printable one
Ord(c) ==
    CASE c = "NUL" -> 0 [] c = "TAB" -> 9 [] c = "LF" -> 10 [] c = "CR" -> 13
      [] c = "ESC" -> 27 [] c = " " -> 32 [] c = "DEL" -> 127 [] OTHER -> 97

\* the loop without its exception for tab, newline and carriage return
KeptChar_AllControls(c) == Ord(c) >= 32 /\ Ord(c) # 127

\* the loop over val_str: which characters are appended to `sanitized`
KeptChar(c) ==
    IF Ord(c) < 32 THEN Ord(c) \in {9, 10, 13}
    ELSE Ord(c) # 127

sanitize_string_value(val) ==
    IF val = NA THEN NA
    ELSE LET result == SelectSeq(val, KeptChar)
         IN IF Strip(result) = <<>> THEN NA ELSE result

\* the list handed to Series.replace(..., pd.NA)
NullLikeValues ==
    { <<>>, <<"n","a","n">>, <<"N","o","n","e">>, <<"n","u","l","l">>, <<"N","U","L","L">>,
      <<"N","a","N">>, <<"N","/","A">>, <<"n","/","a">> }

ReplaceNullLike(val) == IF val \in NullLikeValues THEN NA ELSE val

\* the value of a string of ASCII digits
RECURSIVE DigitsValue(_)
DigitsValue(ds) ==
    IF Len(ds) = 0 THEN 0
    ELSE 10 * DigitsValue(SubSeq(ds, 1, Len(ds) - 1))
         + (CHOOSE d \in 0..9 : DigitChar(d) = ds[Len(ds)])

\* the parts of a text [sign] digits ["." digits]: int_part and frac_part
\* are strings of ASCII digits, one of them not empty
DecimalParts(s) ==
    LET body == SubSeq(s, SignLen(s) + 1, Len(s))
        dots == {k \in 1..Len(body) : body[k] = "."}
        cut == IF dots = {} THEN Len(body) + 1 ELSE SetMin(dots)
    IN [negative |-> SignLen(s) = 1 /\ s[1] = "-",
        int_part |-> SubSeq(body, 1, cut - 1),
        frac_part |-> SubSeq(body, cut + 1, Len(body))]

IsPlainDecimal(s) ==
    LET d == DecimalParts(s)
    IN /\ Len(d.int_part) + Len(d.frac_part) > 0
       /\ \A k \in 1..Len(d.int_part) : d.int_part[k] \in AsciiDigits
       /\ \A k \in 1..Len(d.frac_part) : d.frac_part[k] \in AsciiDigits

\* float(s) is inf or nan
IsInfOrNan(s) ==
    LowerStr(SubSeq(s, SignLen(s) + 1, Len(s))) \in
        { <<"i","n","f">>, <<"n","a","n">>, <<"i","n","f","i","n","i","t","y">> }

\* str(int(float(clean_val))): the integer part, the fraction cut off
IntText(clean_val) ==
    LET d == DecimalParts(clean_val)
        n == DigitsValue(d.int_part)
    IN (IF d.negative /\ n # 0 THEN <<"-">> ELSE <<>>) \o IntToStr(n)

\* digits without their trailing zeros
RECURSIVE DropTrailingZeros(_)
DropTrailingZeros(ds) ==
    IF Len(ds) > 0 /\ ds[Len(ds)] = "0" THEN DropTrailingZeros(SubSeq(ds, 1, Len(ds) - 1))
    ELSE ds

\* str(float(clean_val)) of a short decimal: the shortest text that reads
\* back as the same float, which for few digits is the decimal itself
FloatText(clean_val) ==
    LET d == DecimalParts(clean_val)
        frac == DropTrailingZeros(d.frac_part)
    IN (IF d.negative THEN <<"-">> ELSE <<>>)
       \o IntToStr(DigitsValue(d.int_part)) \o <<".">> \o (IF frac = <<>> THEN <<"0">> ELSE frac)

MaxPlainDigits == 4

\* str() of the float uses no exponent and gives the decimal back: few
\* digits, and the value is 0 or at least 0.0001
ReprIsPlain(clean_val) ==
    LET d == DecimalParts(clean_val)
        frac == DropTrailingZeros(d.frac_part)
    IN /\ Len(d.int_part) + Len(d.frac_part) <= MaxPlainDigits
       /\ (DigitsValue(d.int_part) = 0 /\ frac # <<>>) =>
              \E k \in 1..Len(frac) : k <= 4 /\ frac[k] # "0"

\* validate_numeric_values on one value. The texts of str(int_val) and
\* str(float_val) are given for clean_val of the form [sign] digits ["." digits]
\* with at most MaxPlainDigits digits (ReprIsPlain), where float() is exact
\* enough and str() uses no exponent; the other texts float() accepts (exponents, underscores,
\* non-ASCII digits) do not come up in the columns of this model and have no
\* arm here.
validate_numeric_values(val, numeric_type) ==
    IF val = NA THEN NA
    ELSE LET val_str == Strip(val)
             clean_val == Strip(SelectSeq(val_str, LAMBDA c : c \notin {",", "$", "%"}))
         IN IF val_str = <<>> \/ LowerStr(val_str) \in
                                   { <<"n","a","n">>, <<"n","o","n","e">>, <<"n","u","l","l">> }
            THEN NA
            ELSE CASE ~IsPyFloat(clean_val) -> NA
                   [] IsInfOrNan(clean_val) -> NA
                   [] IsPlainDecimal(clean_val) /\ ReprIsPlain(clean_val) ->
                        IF numeric_type = "INTEGER" THEN IntText(clean_val)
                        ELSE FloatText(clean_val)

\* the format lists of standardize_dates (lines 1124-1141)
std_date_only_formats ==
    date_only_formats \o
    << <<"%Y", "/", "%m", "/", "%d">>,
       <<"%d", "-", "%m", "-", "%Y">>,
       <<"%m", "-", "%d", "-", "%Y">> >>

std_timestamp_formats ==
    timestamp_formats \o
    << <<"%Y", "/", "%m", "/", "%d", " ", "%H", ":", "%M", ":", "%S">>,
       <<"%d", "/", "%m", "/", "%Y", " ", "%H", ":", "%M", ":", "%S">>,
       <<"%Y", "-", "%m", "-", "%d", " ", "%H", ":", "%M", ":", "%S", ".", "%f">>,
       <<"%Y", "-", "%m", "-", "%d", "T", "%H", ":", "%M", ":", "%S", ".", "%f">> >>

\* the first format of the list that reads val_str, 0 when none does
FirstFormat(val_str, formats) ==
    IF ParsesWithAny(val_str, formats)
    THEN SetMin({f \in 1..Len(formats) : StrptimeOk(val_str, formats[f])})
    ELSE 0

\* the datetime that datetime.strptime(val_str, fmt) returns
Strptime(val_str, fmt) ==
    LET m == CHOOSE m \in StrpMatches(fmt, 1, val_str, 1) : ValidDateTime(m)
    IN [year |-> FieldOf(m, "%Y", 1900), month |-> FieldOf(m, "%m", 1),
        day |-> FieldOf(m, "%d", 1), hour |-> FieldOf(m, "%H", 0),
        minute |-> FieldOf(m, "%M", 0), second |-> FieldOf(m, "%S", 0)]

\* two digits, zero-padded
Pad2(n) == <<DigitChar(n \div 10), DigitChar(n % 10)>>

\* parsed.strftime('%Y-%m-%d') for a year of four digits
IsoDate(parsed) ==
    IntToStr(parsed.year) \o <<"-">> \o Pad2(parsed.month) \o <<"-">> \o Pad2(parsed.day)

\* parsed.strftime('%Y-%m-%dT%H:%M:%S')
IsoTimestamp(parsed) ==
    IsoDate(parsed) \o <<"T">> \o Pad2(parsed.hour) \o <<":">> \o Pad2(parsed.minute)
      \o <<":">> \o Pad2(parsed.second)

\* a date a pandas Timestamp can hold (1677-09-21 .. 2262-04-11), by its year
InTimestampBounds(parsed) == parsed.year > 1677 /\ parsed.year < 2262

\* the date-only texts the flexible parser is modelled on: the texts the
\* first four date-only formats read
FlexibleDateFormats == SubSeq(std_date_only_formats, 1, 4)

\* pd.to_datetime(val_str, errors='raise') at line 1165: ok is FALSE when it
\* raises (the parser finds no date, or the date is out of bounds for a
\* Timestamp). Month comes first in a text both slash formats read, as in
\* the format list. Texts outside these forms have no arm.
to_datetime(val_str) ==
    CASE FirstFormat(val_str, FlexibleDateFormats) # 0 ->
           LET parsed == Strptime(val_str, FlexibleDateFormats[FirstFormat(val_str, FlexibleDateFormats)])
           IN [ok |-> InTimestampBounds(parsed), parsed |-> parsed]
      [] val_str = <<"x">> -> [ok |-> FALSE, parsed |-> <<>>]

\* the loop body of standardize_dates (lines 1143-1175) for one cell
standardize_dates(val, date_type) ==
    IF val = NA THEN NA
    ELSE LET val_str == Strip(val)
             formats == IF date_type = "TIMESTAMP_NTZ" THEN std_timestamp_formats
                        ELSE std_date_only_formats
             Iso(parsed) == IF date_type = "TIMESTAMP_NTZ" THEN IsoTimestamp(parsed)
                            ELSE IsoDate(parsed)
         IN IF val_str = <<>> \/ LowerStr(val_str) \in
                   { <<"n","a","n">>, <<"n","o","n","e">>, <<"n","u","l","l">> }
            THEN NA
            ELSE IF FirstFormat(val_str, formats) # 0
            THEN Iso(Strptime(val_str, formats[FirstFormat(val_str, formats)]))
            ELSE IF to_datetime(val_str).ok THEN Iso(to_datetime(val_str).parsed)
            ELSE NA

\* one cell of a data column (lines 1044-1063)
SanitizeCell(val, recommended_type) ==
    LET replaced == ReplaceNullLike(val)
    IN CASE recommended_type = "VARCHAR" -> sanitize_string_value(replaced)
         [] recommended_type \in {"DATE", "TIMESTAMP_NTZ"} ->
                standardize_dates(replaced, recommended_type)
         [] recommended_type \in {"INTEGER", "FLOAT"} ->
                validate_numeric_values(replaced, recommended_type)

sanitize_for_sql(frame, analysis) ==
    IF DFEmpty(frame) THEN frame
    ELSE LET TypeOf(col) == IF col \in DOMAIN analysis THEN analysis[col].recommended_type
                            ELSE "VARCHAR"
         IN DF(frame.index, frame.columns,
               [i \in 1..DFLen(frame) |->
                   [c \in 1..Len(frame.columns) |->
                       IF frame.columns[c] \in {PossibleDuplicateCol, IsTotalRowCol}
                       THEN frame.rows[i][c]
                       ELSE SanitizeCell(frame.rows[i][c], TypeOf(frame.columns[c]))]])

MaxSanitizeLen == 2

SanitizeCells ==
    { NA, <<>>, <<" ">>, <<"TAB">>, <<"a">>, <<"1">>, <<"0","7">>, <<"-","0">>,
      <<"n","a","n">>, <<"N","a","N">>, <<"N","A","N">>,
      <<"N","o","n","e">>, <<"N","O","N","E">>,
      <<"n","u","l","l">>, <<"N","U","L","L">>, <<"N","u","l","l">>,
      <<"N","/","A">>, <<"n","/","a">>,
      <<"a","NUL","TAB","LF","CR","b">>, <<"ESC">>, <<"DEL"," ">>, <<"LF","a">> }

\* columns that get a numeric type: a run of integers, or of decimals, long
\* enough to carry one value of another kind
IntegerRunLen == 9
FloatRunLen == 4
NumericSpecials ==
    { <<"2">>, <<"1",".","5">>, <<"-","0",".","5">>, <<"-","1",".","9">>, <<"2",".","5","0">>,
      <<".","5">>, <<"1",",","0","0","0">>, <<"$","5">>, <<"5","0","%">>, <<" ","7">>,
      <<"x">>, <<"i","n","f">>, NA }
NumericColumns ==
    { [i \in 1..IntegerRunLen |-> <<"1">>] \o <<c>> : c \in NumericSpecials }
    \cup { [i \in 1..FloatRunLen |-> <<"1",".","5">>] \o <<c>> : c \in NumericSpecials }

\* columns that get a date type: dates and timestamps in the forms of both
\* format lists, a date no Timestamp holds, a text and a missing cell
MaxDateLen == 2
DateCells ==
    { <<"2","0","2","4","-","0","1","-","1","5">>,
      <<"0","1","/","0","2","/","2","0","2","4">>,
      <<"1","5","/","0","1","/","2","0","2","4">>,
      <<"9","9","9","9","-","1","2","-","3","1">>,
      <<"2","0","2","4","-","0","1","-","1","5","T","1","0",":","3","0",":","0","0">>,
      <<"0","1","/","0","2","/","2","0","2","4"," ","2","3",":","5","9",":","5","9">> }
DateRunLen == 4
DateSpecials ==
    { <<"x">>, NA, <<"N","O","N","E">>, <<"2","0","2","4","/","0","1","/","1","5">> }
DateColumns ==
    UNION { [1..n -> DateCells] : n \in 1..MaxDateLen }
    \cup { [i \in 1..DateRunLen |-> d] \o <<c>> :
             d \in { <<"2","0","2","4","-","0","1","-","1","5">>,
                     <<"2","0","2","4","-","0","1","-","1","5","T","1","0",":","3","0",":","0","0">> },
             c \in DateSpecials }

SanitizeColumns ==
    UNION { [1..n -> SanitizeCells] : n \in 1..MaxSanitizeLen } \cup NumericColumns \cup DateColumns

\* the cleaned table and its type analysis, as normalize_spreadsheet has them
\* when it calls sanitize_for_sql
InitSanitize ==
    /\ pc = "sanitize"
    /\ type_df \in { TypeFrame(cells) : cells \in SanitizeColumns }
    /\ type_analysis = analyze_column_types(type_df)
    /\ df = type_df
    /\ region_df_raw = <<>> /\ df_data = <<>> /\ normalized_headers = <<>> /\ metadata = <<>>
    /\ IdleHeaders /\ IdleRegions /\ IdleOrch
    /\ IdleRate

\* df_clean = sanitize_for_sql(df_clean, type_analysis); df keeps the table
\* as it was before the call
SanitizeForSql ==
    /\ pc = "sanitize"
    /\ type_df' = sanitize_for_sql(type_df, type_analysis)
    /\ pc' = "done"
    /\ UNCHANGED <<type_analysis, headerVars, regionVars, cleanVars, orchVars, rateVars>>

NextSanitize == SanitizeForSql

SpecSanitize == InitSanitize /\ [][NextSanitize]_vars


\* the text of a cell is a missing-like literal: empty, nan / None / null in
\* any letter case, or N/A (n/a is taken as a spelling of N/A)
MissingLike(v) ==
    /\ v # NA
    /\ \/ v = <<>>
       \/ LowerStr(v) \in { <<"n","a","n">>, <<"n","o","n","e">>, <<"n","u","l","l">> }
       \/ v \in { <<"N","/","A">>, <<"n","/","a">> }

\* the text left after the control characters are taken out is not blank, so
\* the later steps of a VARCHAR column keep the cell
HasVisibleText(v) == Strip(SelectSeq(v, LAMBDA c : c \notin {"NUL", "ESC", "DEL"})) # <<>>

\* C19: after sanitize_for_sql every cell of the data column that held a
\* missing-like literal is null, and a cell that held other text is not made
\* null by the replacement of missing-like literals.
C19_MissingLikeBecomesNull ==
    pc = "done" =>
        LET p == FirstColPos(df, ValueColumn)
        IN \A i \in 1..DFLen(df) :
              LET before == df.rows[i][p]
                  after == type_df.rows[i][p]
              IN /\ MissingLike(before) => after = NA
                 /\ (before # NA /\ ~MissingLike(before) /\ HasVisibleText(before)) => after # NA


\* the control characters other than tab, newline and carriage return
RemovedControls == {"NUL", "ESC", "DEL"}

WithoutControls(v) == SelectSeq(v, LAMBDA c : c \notin RemovedControls)

NumberText(v) == Strip(SelectSeq(Strip(v), LAMBDA c : c \notin {",", "$", "%"}))

\* 1000 times the number a decimal text of up to three fraction digits denotes
Thousandths(t) ==
    LET d == DecimalParts(t)
        frac == d.frac_part \o SubSeq(<<"0","0","0">>, 1, 3 - Len(d.frac_part))
        n == 1000 * DigitsValue(d.int_part) + DigitsValue(frac)
    IN IF d.negative THEN 0 - n ELSE n

\* C21: in an INTEGER or FLOAT column a value becomes null exactly when,
\* without separators and symbols, it does not parse as a number or is not
\* finite, and every other value comes out as a text that denotes the same
\* number as the input, also when the input has a fractional part.
C21_NumericValuesKept ==
    (pc = "done" /\ type_analysis[ValueColumn].recommended_type \in {"INTEGER", "FLOAT"}) =>
        LET p == FirstColPos(df, ValueColumn)
        IN \A i \in 1..DFLen(df) :
              LET before == df.rows[i][p]
                  after == type_df.rows[i][p]
              IN before # NA =>
                    /\ after = NA <=> (~IsPyFloat(NumberText(before)) \/ IsInfOrNan(NumberText(before)))
                    /\ after # NA => /\ IsPlainDecimal(after)
                                     /\ Thousandths(after) = Thousandths(NumberText(before))


\* the tag of row i of a tagged table
DuplicateTag(frame, i) == frame.rows[i][Len(frame.rows[i])]

\* C22: tagging is the last stage of clean_single_sheet and removes no row:
\* the table has the same rows in the same order before and after it, and a
\* row is tagged true exactly when another row of the table has the same
\* value in every column.
C22_TaggingKeepsRows ==
    [][ pc = "tag_duplicates" =>
          /\ pc' = "done"
          /\ df_data'.index = df_data.index
          /\ DFLen(df_data') = DFLen(df_data)
          /\ \A i \in 1..DFLen(df_data) :
                /\ SubSeq(df_data'.rows[i], 1, Len(df_data.rows[i])) = df_data.rows[i]
                /\ Len(df_data'.rows[i]) = Len(df_data.rows[i]) + 1
                /\ DuplicateTag(df_data', i) = TrueCell <=>
                      \E j \in 1..DFLen(df_data) : j # i /\ df_data.rows[j] = df_data.rows[i]
                /\ DuplicateTag(df_data', i) \in {TrueCell, FalseCell} ]_vars

\* a cleaned table of three or more rows: two equal rows tagged true and a
\* row like no other tagged false
C22_Witness ==
    /\ pc = "done" /\ ~DFEmpty(df) /\ DFLen(df_data) >= 3
    /\ Len(df_data.columns) > 0 /\ df_data.columns[Len(df_data.columns)] = PossibleDuplicateCol
    /\ \E i, j, k \in 1..DFLen(df_data) :
          /\ i # j
          /\ SubSeq(df_data.rows[i], 1, Len(df_data.rows[i]) - 1) = SubSeq(df_data.rows[j], 1, Len(df_data.rows[j]) - 1)
          /\ DuplicateTag(df_data, i) = TrueCell /\ DuplicateTag(df_data, j) = TrueCell
          /\ DuplicateTag(df_data, k) = FalseCell


\* the same cells as a region that starts at sheet row 0
SameCellsAtTop(raw) == RegionAt(0, raw.rows)

\* C23: a region placed lower in the sheet is cleaned like the region with
\* the same cells at the top of the sheet: the same header depth, the same
\* header start row counted from the region's first row, the same column
\* names and the same body rows.
C23_HeaderBandIgnoresOffset ==
    (pc = "done" /\ ~DFEmpty(df)) =>
        LET offset == region_df_raw.index[1]
            twin == clean_single_sheet(SameCellsAtTop(region_df_raw))
        IN /\ metadata.header_depth_used = twin.metadata.header_depth_used
           /\ metadata.header_row_index - offset = twin.metadata.header_row_index
           /\ df_data.columns = twin.df.columns
           /\ df_data.rows = twin.df.rows

\* ---------------------------------------------------------------------------
\* the order in which the regions of a sheet are processed (lines 1750-1926)
\* ---------------------------------------------------------------------------

\* every order in which the n regions of a sheet can be taken
RegionOrders(n) == {o \in [1..n -> 1..n] : \A i, j \in 1..n : o[i] = o[j] => i = j}

\* the regions of sheet t that the loop at 1760 reaches when it takes them in
\* the given order: those before the first one whose failure leaves the loop
RegionsReached(t, order) ==
    {order[i] : i \in {j \in DOMAIN order :
                          \A h \in 1..j : <<t, order[h], "other">> \notin faults}}

\* what the k-th region of sheet t stores, with the failure recorded for it
StoredOutcome(t, k) ==
    IF <<t, k, "ambiguous">> \in faults
    THEN RegionOutcome(workbook[t].name, k, Len(detect_table_regions(workbook[t].grid)),
                       detect_table_regions(workbook[t].grid)[k],
                       AmbiguousResult(RegionSlice(workbook[t].grid,
                                                   detect_table_regions(workbook[t].grid)[k]),
                                       workbook[t].name))
    ELSE UndisturbedOutcome(t, k)

\* C24: taking the regions of a sheet in any order gives the tables the run
\* has: the same table names, and for each name the same cleaned table and the
\* same metadata record, also when one of the tables fails.
C24_RegionOrderIrrelevant ==
    pc = "done" =>
        \A t \in {s \in 1..Len(workbook) : <<s, 0, "read">> \notin faults} :
            \A k \in 1..Len(detect_table_regions(workbook[t].grid)) :
                LET out == StoredOutcome(t, k)
                IN /\ out.name \in DictKeys(cleaned_sheets) =>
                         /\ DictGet(cleaned_sheets, out.name) = out.shape
                         /\ DictGet(sheet_metadata, out.name) = out.metadata
                   /\ \A order \in RegionOrders(Len(detect_table_regions(workbook[t].grid))) :
                         k \in RegionsReached(t, order) <=> out.name \in DictKeys(cleaned_sheets)

-----------------------------------------------------------------------------
(* Specification of the context stage of clean_single_sheet over columns   *)
(* built from runs of equal cells                                          *)

MaxValueRun == 11     \* longest run of one repeated value in a column
MaxBlankRun == 3      \* longest run of empty-string cells
MaxNullRun == 6       \* longest run of cells holding the text null

Run(cell, n) == [i \in 1..n |-> cell]

\* the names the context candidate takes: one with a category keyword, one without
ContextNames == { <<"t","y","p","e">>, <<"i","t","e","m">> }

\* a leading cell, a run of one value, blanks, null texts, a padded value, a
\* trailing missing cell
ContextColumn(lead, n_lead, n_val, n_blank, n_null, n_pad, n_tail) ==
    Run(lead, n_lead) \o Run(<<"a">>, n_val) \o Run(<<>>, n_blank)
      \o Run(<<"n","u","l","l">>, n_null) \o Run(<<" ","b">>, n_pad) \o Run(NA, n_tail)

\* the table at line 931: the candidate column beside a column of one padded text
ContextFrame(name, cells) ==
    DF([i \in 1..Len(cells) |-> i - 1], <<name, <<"v","a","l">> >>,
       [i \in 1..Len(cells) |-> <<cells[i], <<"x"," ">> >>])

InitContext ==
    /\ pc = "context_fill"
    /\ \E name \in ContextNames, lead \in {NA, <<>>}, n_lead \in 0..1, n_val \in 0..MaxValueRun :
          \E n_blank \in 0..MaxBlankRun, n_null \in 0..MaxNullRun, n_pad \in 0..1, n_tail \in 0..1 :
             /\ n_lead + n_val + n_blank + n_null + n_pad + n_tail > 0
             /\ df_data = ContextFrame(name, ContextColumn(lead, n_lead, n_val, n_blank,
                                                           n_null, n_pad, n_tail))
    /\ normalized_headers = df_data.columns
    /\ metadata = InitMetadata(DFLen(df_data) + 1)
    /\ region_df_raw = <<>> /\ df = <<>>
    /\ IdleHeaders /\ IdleRegions /\ IdleTypes /\ IdleOrch
    /\ IdleRate

NextContext ==
    \/ ContextFill
    \/ TagDuplicates

SpecContext == InitContext /\ [][NextContext]_vars

\* a cell counted in the blank ratio (lines 665-674)
CountedBlank(v) == v = NA \/ Strip(AsStr(v)) \in BlankTexts

\* the rule as stated, over one notion of blank: blank ratio = blank cells /
\* rows, cardinality ratio = distinct non-blank values / non-blank cells; a
\* column without non-blank values has no ratio below any threshold
StatedContextColumn(frame, col) ==
    LET p == FirstColPos(frame, col)
        n_rows == DFLen(frame)
        blanks == {i \in 1..n_rows : CountedBlank(frame.rows[i][p])}
        values == {i \in 1..n_rows : ~CountedBlank(frame.rows[i][p])}
        blank_count == Cardinality(blanks)
        value_count == Cardinality(values)
        unique_count == Cardinality({frame.rows[i][p] : i \in values})
    IN \/ (10 * blank_count >= 3 * n_rows /\ 10 * unique_count < 2 * value_count)
       \/ 10 * unique_count < value_count
       \/ /\ \E kw \in category_keywords : Contains(LowerStr(col), kw)
          /\ (10 * blank_count >= 2 * n_rows \/ 10 * unique_count < 3 * value_count)

\* C25: a data column is classified as a context column exactly when its
\* blank ratio is at least 0.30 and its non-blank cardinality ratio below
\* 0.20, or the cardinality ratio is below 0.10, or its name has a category
\* keyword and (blank ratio at least 0.20 or cardinality ratio below 0.30);
\* a column without any non-blank value falls under the same rule.
C25_ContextRule ==
    [][ pc = "context_fill" =>
          metadata'.context_columns_filled =
              SelectSeq(df_data.columns, LAMBDA col : StatedContextColumn(df_data, col))
      ]_vars

\* the cell of a context column that the fill may change: it is blank and a
\* cell above it in the column is not
FillableCell(frame, p, i) ==
    /\ BlankCell(frame.rows[i][p])
    /\ \E j \in 1..(i - 1) : ~BlankCell(frame.rows[j][p])

\* C26: the fill changes only cells that were blank in a context column and
\* had a non-blank cell above them: the rows and their order, every cell of a
\* column that is no context column, every non-blank cell and every leading
\* blank cell of a context column are the same after the call as before.
C26_FillChangesOnlyFillableCells ==
    [][ pc = "context_fill" =>
          /\ df_data'.index = df_data.index
          /\ df_data'.columns = df_data.columns
          /\ DFLen(df_data') = DFLen(df_data)
          /\ \A i \in 1..DFLen(df_data), p \in 1..Len(df_data.columns) :
                \/ df_data'.rows[i][p] = df_data.rows[i][p]
                \/ /\ df_data.columns[p] \in SeqToSet(metadata'.context_columns_filled)
                   /\ FillableCell(df_data, p, i)
      ]_vars

-----------------------------------------------------------------------------
(* Further claims about analyze_column_types                               *)

\* how the counting loop reads each cell of the value column
CellKinds(frame) ==
    [i \in 1..DFLen(frame) |->
        IF frame.rows[i][FirstColPos(frame, ValueColumn)] = NA THEN "skipped"
        ELSE ValueKind(frame.rows[i][FirstColPos(frame, ValueColumn)])]

\* every non-blank value is a number and there is one
AllNumeric(frame) ==
    /\ \A i \in 1..DFLen(frame) : CellKinds(frame)[i] \in {"int", "float", "skipped"}
    /\ \E i \in 1..DFLen(frame) : CellKinds(frame)[i] \in {"int", "float"}

\* C27: a column in which every non-blank value parses as a number, integers
\* and decimals in any mix, is recommended INTEGER or FLOAT, never VARCHAR.
C27_NumericColumnNotVarchar ==
    (pc = "done" /\ ~DFEmpty(type_df) /\ AllNumeric(type_df)) =>
        type_analysis[ValueColumn].recommended_type \in {"INTEGER", "FLOAT"}

-----------------------------------------------------------------------------
(* Claims about standardize_dates                                          *)

\* the instant the Type Profiler read in a value it counted as a date: the
\* first date-only format that reads it, otherwise the first timestamp format
ProfilerReading(val_str) ==
    IF ParsesWithAny(val_str, date_only_formats)
    THEN Strptime(val_str, date_only_formats[FirstFormat(val_str, date_only_formats)])
    ELSE Strptime(val_str, timestamp_formats[FirstFormat(val_str, timestamp_formats)])

\* YYYY-MM-DD
IsIsoDateText(t) ==
    /\ Len(t) = 10
    /\ \A i \in {1, 2, 3, 4, 6, 7, 9, 10} : t[i] \in AsciiDigits
    /\ t[5] = "-" /\ t[8] = "-"

\* YYYY-MM-DDTHH:MM:SS
IsIsoTimestampText(t) ==
    /\ Len(t) = 19
    /\ IsIsoDateText(SubSeq(t, 1, 10))
    /\ t[11] = "T" /\ t[14] = ":" /\ t[17] = ":"
    /\ \A i \in {12, 13, 15, 16, 18, 19} : t[i] \in AsciiDigits

\* C28: in a DATE or TIMESTAMP_NTZ column every cell is null or an ISO text
\* of the column's form after standardize_dates; a present, non-blank value
\* becomes null only if no format reads it and the flexible parser rejects
\* it; and every value the Type Profiler counted as a date is non-null and
\* carries the instant that the profiler's first matching format reads.
C28_DatesStandardized ==
    (pc = "done" /\ type_analysis[ValueColumn].recommended_type \in {"DATE", "TIMESTAMP_NTZ"}) =>
        LET p == FirstColPos(df, ValueColumn)
            date_type == type_analysis[ValueColumn].recommended_type
            Iso(parsed) == IF date_type = "DATE" THEN IsoDate(parsed) ELSE IsoTimestamp(parsed)
        IN \A i \in 1..DFLen(df) :
              LET before == df.rows[i][p]
                  after == type_df.rows[i][p]
              IN /\ after = NA \/ (IF date_type = "DATE" THEN IsIsoDateText(after)
                                   ELSE IsIsoTimestampText(after))
                 /\ (after = NA /\ before # NA /\ ValueKind(before) # "skipped") =>
                        /\ ~ParsesWithAny(Strip(before), std_date_only_formats)
                        /\ ~ParsesWithAny(Strip(before), std_timestamp_formats)
                        /\ ~to_datetime(Strip(before)).ok
                 /\ (before # NA /\ ValueKind(before) \in {"date", "timestamp"}) =>
                        /\ after # NA
                        /\ after = Iso(ProfilerReading(Strip(before)))

-----------------------------------------------------------------------------
(* The internal tag columns                                                *)

\* C29: the tag columns __possible_duplicate and __is_total_row are no data
\* columns for any stage: neither has a type profile, neither is reported as
\* a candidate key, neither is classified as a context column, and the
\* sanitizer leaves their cells as they are.
C29_TagColumnsAreNotData ==
    (pc = "done" /\ ~DFEmpty(df)) =>
        /\ \A col \in InternalCols :
              /\ col \notin DOMAIN type_analysis
              /\ col \notin SeqToSet(find_candidate_keys(df))
              /\ col \notin SeqToSet(detect_context_columns(df, df.columns))
        /\ \A i \in 1..DFLen(df), c \in 1..Len(df.columns) :
              df.columns[c] \in InternalCols => type_df.rows[i][c] = df.rows[i][c]

-----------------------------------------------------------------------------
(* The rate limit of the front end (app_streamlit.py)                      *)

MAX_REQUESTS_PER_HOUR == 20
RATE_LIMIT_WINDOW == 3600

ClockStep == 1800      \* seconds by which the modelled clock advances
MaxClock == 5400       \* the clock stops advancing here

RateLimitMessage == "Rate limit exceeded. Please wait before processing more files."

\* check_rate_limit with one more request let through
check_rate_limit_OneMore(requests, t) ==
    LET kept == SelectSeq(requests, LAMBDA req_time : t - req_time < RATE_LIMIT_WINDOW)
    IN [requests |-> kept, allowed |-> ~(Len(kept) > MAX_REQUESTS_PER_HOUR)]

\* check_rate_limit at clock reading t: the pruned list it stores, and
\* whether the request is allowed
check_rate_limit(requests, t) ==
    LET kept == SelectSeq(requests, LAMBDA req_time : t - req_time < RATE_LIMIT_WINDOW)
    IN [requests |-> kept, allowed |-> ~(Len(kept) >= MAX_REQUESTS_PER_HOUR)]

InitRate ==
    /\ pc = "ui"
    /\ now = 0
    /\ rate_limit_requests = <<>>
    /\ processing = FALSE
    /\ rate_message = ""
    /\ run_log = <<>>
    /\ IdleHeaders /\ IdleRegions /\ IdleClean /\ IdleTypes /\ IdleOrch

\* time passes
Tick ==
    /\ now + ClockStep <= MaxClock
    /\ now' = now + ClockStep
    /\ UNCHANGED <<pc, rate_limit_requests, processing, rate_message, run_log,
                   headerVars, regionVars, cleanVars, typeVars, orchVars>>

\* the Normalize button handler (lines 2032-2045): check_rate_limit reads the
\* clock, record_request reads it again `delay` seconds later
Normalize ==
    /\ pc = "ui"
    /\ LET checked == check_rate_limit(rate_limit_requests, now)
       IN IF ~checked.allowed
          THEN /\ rate_limit_requests' = checked.requests
               /\ rate_message' = RateLimitMessage
               /\ UNCHANGED <<now, processing, run_log>>
          ELSE \E delay \in {0, ClockStep} :
                  /\ now + delay <= MaxClock
                  /\ now' = now + delay
                  /\ processing' = TRUE
                  /\ rate_limit_requests' = Append(checked.requests, now + delay)
                  /\ run_log' = Append(run_log, now + delay)
                  /\ rate_message' = ""
    /\ UNCHANGED <<pc, headerVars, regionVars, cleanVars, typeVars, orchVars>>

\* lines 2052-2251: the run that was started ends
FinishProcessing ==
    /\ pc = "ui"
    /\ processing
    /\ processing' = FALSE
    /\ UNCHANGED <<pc, now, rate_limit_requests, rate_message, run_log,
                   headerVars, regionVars, cleanVars, typeVars, orchVars>>

NextRate ==
    \/ Tick
    \/ Normalize
    \/ FinishProcessing

SpecRate == InitRate /\ [][NextRate]_vars

\* the recorded requests younger than the window at clock reading t
YoungRequests(t) ==
    Cardinality({i \in DOMAIN rate_limit_requests : t - rate_limit_requests[i] < RATE_LIMIT_WINDOW})

\* no window of RATE_LIMIT_WINDOW seconds, taken from a start on, holds more
\* than MAX_REQUESTS_PER_HOUR starts
WindowsWithinLimit(log) ==
    \A i \in DOMAIN log :
        Cardinality({j \in DOMAIN log : log[i] <= log[j] /\ log[j] < log[i] + RATE_LIMIT_WINDOW})
            <= MAX_REQUESTS_PER_HOUR

\* C30: in one session at most 20 processing runs start within any window of
\* 3600 seconds; a run starts (and its request time is recorded) only when
\* fewer than 20 recorded requests are younger than 3600 seconds at that
\* moment, and a refused press starts no run and records nothing.
C30_RateLimited ==
    [][ /\ WindowsWithinLimit(run_log')
        /\ run_log' # run_log =>
              /\ YoungRequests(now) < MAX_REQUESTS_PER_HOUR
              /\ Len(run_log') = Len(run_log) + 1
              /\ Len(rate_limit_requests') > 0
              /\ rate_limit_requests'[Len(rate_limit_requests')] = run_log'[Len(run_log')]
              /\ processing'
        /\ (processing' /\ ~processing) => run_log' # run_log
        /\ YoungRequests(now) >= MAX_REQUESTS_PER_HOUR =>
              /\ run_log' = run_log
              /\ processing' => processing
              /\ \A i \in DOMAIN rate_limit_requests' :
                    \E j \in DOMAIN rate_limit_requests :
                        rate_limit_requests'[i] = rate_limit_requests[j]
              /\ Len(rate_limit_requests') <= Len(rate_limit_requests)
      ]_vars

\* a press was refused with 20 young requests on record, after more than 20
\* runs had started in the session
C30_Witness ==
    /\ rate_message = RateLimitMessage
    /\ YoungRequests(now) = MAX_REQUESTS_PER_HOUR
    /\ Len(run_log) > MAX_REQUESTS_PER_HOUR

====
